---- MODULE Spec2Model ----
(***************************************************************************)
(* The medical question-answering agent of rag_agent: MedicalAgent's       *)
(* ReAct loop (src/src/medical_agent.py), the tool registry boundary it    *)
(* calls (src/src/agent_tools.py), the multi-turn caller                   *)
(* (src/medical_qa_system.py, interactive_qa) and the mode controller      *)
(* MedicalQASystem (src/medical_qa_system.py).                             *)
(*                                                                         *)
(* Texts the code builds from fixed Chinese wording are written here as    *)
(* ASCII strings of the same structure: fixed part, interpolated part.     *)
(***************************************************************************)
EXTENDS Naturals, Sequences, FiniteSets, TLC

(***************************************************************************)
(* Bounds of the model.                                                    *)
(***************************************************************************)
\* largest max_iterations an agent is constructed with
MaxIter == 2
\* largest number of tool calls the backend requests in one episode
MaxCalls == 2
\* largest number of chat calls / interactive turns in one session
MaxChats == 2
\* register_tool calls made on a registry after its construction
MaxRegs == 2
\* register_default_tools calls made on a registry after its construction
MaxDefaults == 1
\* calls made on a MedicalQASystem, its construction included
MaxOps == 3
\* backend outcomes an episode run by answer_question is scripted with
MaxScript == 2

(***************************************************************************)
(* Inputs: user questions, backend replies, backend failures.              *)
(***************************************************************************)
UserInputs == {"q1", "q2"}

\* contents of a reply that carries no tool call
Answers == {"answer_a", "answer_b"}

\* content of a reply that carries tool calls (the backend's optional text)
ToolReplyContent == ""

\* messages of the exceptions the backend call raises
BackendErrors == {"backend unavailable"}

\* names the backend asks for: a registered reference tool, an unknown name
ToolNames == {"drug_information", "no_such_tool"}

\* the registry after register_default_tools (the name the model uses of it)
RegisteredTools == {"drug_information"}

\* argument payloads (function.arguments, a JSON text chosen by the backend)
ArgsGood == "{\"drug_name\": \"aspirin\"}"
ArgsMissing == "{}"
ArgsNotObject == "[1]"
ArgsMalformed == "{bad"
\* an object with a key named like execute_tool's own first parameter
ArgsCollide == "{\"tool_name\": \"x\"}"
ArgPayloads == {ArgsGood, ArgsMissing, ArgsNotObject, ArgsMalformed, ArgsCollide}

\* the (name, arguments) pairs the backend requests: the registered tool with
\* each payload that has a path of its own, the unknown one with the objects
ToolRequests ==
    (RegisteredTools \X (ArgPayloads \ {ArgsCollide}))
    \cup ((ToolNames \ RegisteredTools) \X {ArgsGood, ArgsCollide})

(***************************************************************************)
(* Variables.                                                              *)
(***************************************************************************)
VARIABLES
    max_iterations,        \* MedicalAgent.max_iterations
    conversation_history,  \* MedicalAgent.conversation_history
    ep,                    \* the running process_query call: its locals
    caller,                \* who drives the session: "direct" or "interactive_qa"
    chats,                 \* chat calls made so far in the session
    answers,               \* turns of the session that obtained an answer
    tools,                 \* ToolRegistry.tools: the entries in dict order
    reg_log,               \* the register_tool calls made on the registry, in order
    reg_out,               \* what the last call on the registry returned
    qa,                    \* the MedicalQASystem object: its fields
    qa_out,                \* what the call that returned in the last step did
    qa_ops,                \* calls made on the MedicalQASystem so far
    qa_run,                \* the calls on the MedicalQASystem that wait at present
    lookup,                \* one retrieval: its inputs and what the calls returned
    tool_run,              \* what the tools read, and the execute_tool calls made
    assessment,            \* one emergency_assessment: its keywords and its text
    evaluation,            \* one _calculate_coverage_score: its arguments and its score
    episodes,              \* two process_query calls of one process: their locals
    deployment             \* an agent, the vector stores on disk, and the searches made

agent_vars == <<max_iterations, conversation_history, ep, caller, chats, answers>>
registry_vars == <<tools, reg_log, reg_out>>
qa_vars == <<qa, qa_out, qa_ops, qa_run>>
solo_vars == <<lookup, tool_run, assessment, evaluation, deployment>>
bench_vars == <<lookup, tool_run, assessment, evaluation, episodes, deployment>>
vars == <<max_iterations, conversation_history, ep, caller, chats, answers,
          tools, reg_log, reg_out, qa, qa_out, qa_ops, qa_run, lookup, tool_run,
          assessment, evaluation, episodes, deployment>>

(***************************************************************************)
(* Texts.                                                                  *)
(***************************************************************************)
\* MedicalAgent._build_system_prompt: one fixed text
SystemPrompt == "SYSTEM_PROMPT"

\* the text returned when the iteration budget is used up
BudgetMessage == "SORRY_TOO_COMPLEX"

\* the text returned when the final iteration fails
ErrorMessage(msg) == "SORRY_ERROR: " \o msg \o ". PLEASE_REPHRASE"

(***************************************************************************)
(* Messages of the conversation.  Every message has the same four fields; *)
(* a field the Python dict does not have is "" / <<>> / 0.                 *)
(***************************************************************************)
SystemMessage == [role |-> "system", content |-> SystemPrompt,
                  tool_calls |-> <<>>, tool_call_id |-> 0]

UserMessage(q) == [role |-> "user", content |-> q,
                   tool_calls |-> <<>>, tool_call_id |-> 0]

\* assistant_message.model_dump()
AssistantMessage(reply) == [role |-> "assistant", content |-> reply.content,
                            tool_calls |-> reply.tool_calls, tool_call_id |-> 0]

ToolMessage(tool_result, id) == [role |-> "tool", content |-> tool_result,
                                 tool_calls |-> <<>>, tool_call_id |-> id]

(***************************************************************************)
(* json.loads and the call execute_tool(tool_name, **tool_args).           *)
(***************************************************************************)
\* json.loads(tool_call.function.arguments): "dict", "list" or "raise"
json_loads(s) ==
    CASE s = ArgsGood -> "dict"
      [] s = ArgsMissing -> "dict"
      [] s = ArgsCollide -> "dict"
      [] s = ArgsNotObject -> "list"
      [] OTHER -> "raise"

JSONDecodeError ==
    "Expecting property name enclosed in double quotes: line 1 column 2 (char 1)"
NotAMappingError ==
    "src.agent_tools.ToolRegistry.execute_tool() argument after ** must be a mapping, not list"
MissingArgError == "ToolRegistry.drug_information() missing 1 required positional argument: 'drug_name'"
MultipleValuesError == "ToolRegistry.execute_tool() got multiple values for argument 'tool_name'"

\* the keys of the decoded object
json_keys(s) ==
    CASE s = ArgsGood -> {"drug_name"}
      [] s = ArgsCollide -> {"tool_name"}
      [] OTHER -> {}

\* the parameters of execute_tool(self, tool_name, **kwargs) that the call
\* execute_tool(tool_name, **tool_args) has bound before the keywords
BoundParameters == {"self", "tool_name"}

\* the call itself raises TypeError: a keyword names a parameter already bound
BindingRaises(args) == json_keys(args) \cap BoundParameters # {}

\* the handler of a registered tool, called with the decoded arguments:
\* it returns its text, or raises when a required argument is missing
HandlerRaises(tool_name, args) == args = ArgsMissing

HandlerResult(tool_name, args) == "result of " \o tool_name

\* the observation for a name that is not in the registry
ToolNotFound(tool_name) == "tool '" \o tool_name \o "' does not exist"

\* ToolRegistry.execute_tool
execute_tool(tool_name, args) ==
    IF tool_name \notin RegisteredTools
    THEN ToolNotFound(tool_name)
    ELSE IF HandlerRaises(tool_name, args)
         THEN "error executing tool '" \o tool_name \o "': " \o MissingArgError
         ELSE HandlerResult(tool_name, args)

(***************************************************************************)
(* ToolRegistry: registration and schema.  self.tools is a dict; a dict    *)
(* keeps its keys in insertion order and an assignment to a key that is    *)
(* present replaces the value where the key stands.  It is modelled as     *)
(* the sequence of its entries, the key kept in the entry as `name`.       *)
(***************************************************************************)
ToolEntry(name, func, description, parameters) ==
    [name |-> name, function |-> func, description |-> description,
     parameters |-> parameters]

\* the parameters argument, as far as the model looks into it
ParameterSpec(properties, required) ==
    [type |-> "object", properties |-> properties, required |-> required]

\* the six register_tool calls of register_default_tools, in order
DefaultRegistrations ==
    << ToolEntry("medical_knowledge_search", "medical_knowledge_search",
                 "search the medical knowledge base",
                 ParameterSpec(<<"query", "top_k">>, <<"query">>)),
       ToolEntry("symptom_analysis", "symptom_analysis",
                 "analyse symptoms",
                 ParameterSpec(<<"symptoms", "patient_info">>, <<"symptoms">>)),
       ToolEntry("drug_information", "drug_information",
                 "look up drug information",
                 ParameterSpec(<<"drug_name">>, <<"drug_name">>)),
       ToolEntry("health_advice", "health_advice",
                 "give health advice for a condition",
                 ParameterSpec(<<"condition", "lifestyle_factors">>, <<"condition">>)),
       ToolEntry("emergency_assessment", "emergency_assessment",
                 "assess the urgency of symptoms",
                 ParameterSpec(<<"symptoms", "severity">>, <<"symptoms">>)),
       ToolEntry("department_recommendation", "department_recommendation",
                 "recommend a hospital department",
                 ParameterSpec(<<"symptoms", "suspected_condition">>, <<"symptoms">>)) >>

\* what register_tool is called with after construction
NewToolNames == {"drug_information", "custom_tool"}
NewHandlers == {"custom_handler"}
NewDescriptions == {"custom description", "another description"}
NewParameterSpecs ==
    { ParameterSpec(<<"drug_name">>, <<"drug_name">>), ParameterSpec(<<"text">>, <<>>) }

\* faulty variant of register_tool: the entry is always added at the end
register_tool_AlwaysAppends(reg, name, func, description, parameters) ==
    Append(reg, ToolEntry(name, func, description, parameters))

\* ToolRegistry.register_tool: self.tools[name] = {...}
register_tool(reg, name, func, description, parameters) ==
    IF \E i \in 1..Len(reg) : reg[i].name = name
    THEN [i \in 1..Len(reg) |->
            IF reg[i].name = name
            THEN ToolEntry(name, func, description, parameters)
            ELSE reg[i]]
    ELSE Append(reg, ToolEntry(name, func, description, parameters))

\* register_tool for each call of the list, in order
RECURSIVE RegisterAll(_, _)
RegisterAll(reg, calls) ==
    IF calls = <<>> THEN reg
    ELSE RegisterAll(register_tool(reg, calls[1].name, calls[1].function,
                                   calls[1].description, calls[1].parameters),
                     Tail(calls))

\* ToolRegistry.register_default_tools
register_default_tools(reg) == RegisterAll(reg, DefaultRegistrations)

\* ToolRegistry.__init__: self.tools = {}; self.register_default_tools()
NewRegistry == register_default_tools(<<>>)

\* ToolRegistry.get_tools_schema
get_tools_schema(reg) ==
    [i \in 1..Len(reg) |->
        [type |-> "function",
         function |-> [name |-> reg[i].name,
                       description |-> reg[i].description,
                       parameters |-> reg[i].parameters]]]

\* what a call on the registry returned: nothing yet, None of register_tool,
\* the list of get_tools_schema
NoOutput == [op |-> "", raised |-> "", value |-> <<>>]
Returned(op, value) == [op |-> op, raised |-> "", value |-> value]

(***************************************************************************)
(* process_query: the locals of one call, and its steps.                   *)
(*   pc         "idle" (no call), "think" (about to invoke the backend),   *)
(*              "act" (inside the loop over tool_calls), "returned"        *)
(*   exit       which return statement was taken: "final", "error",        *)
(*              "budget" ("" before the return)                            *)
(*   sent       the message lists the backend was invoked with, in order   *)
(*   executed   the ids of the calls handed to execute_tool, in order      *)
(*   issued     number of tool-call ids the backend has handed out         *)
(*   caught     the exceptions the except clause caught, in order:         *)
(*              the iteration and str(e)                                   *)
(***************************************************************************)
IdleEpisode ==
    [pc |-> "idle", user_query |-> "", messages |-> <<>>, iteration |-> 0,
     tool_calls |-> <<>>, idx |-> 0, result |-> "", exit |-> "",
     sent |-> <<>>, executed |-> <<>>, issued |-> 0, caught |-> <<>>]

\* a return statement of process_query
Return(e, text, how) ==
    [e EXCEPT !.pc = "returned", !.result = text, !.exit = how,
              !.tool_calls = <<>>, !.idx = 0]

\* the head of `for iteration in range(self.max_iterations)`, and the
\* return that follows the loop
LoopHead(e, max_it) ==
    IF e.iteration < max_it
    THEN [e EXCEPT !.pc = "think", !.tool_calls = <<>>, !.idx = 0]
    ELSE Return(e, BudgetMessage, "budget")

\* faulty variant of Continue: the iteration is not advanced
Continue_NoAdvance(e, max_it) == LoopHead(e, max_it)

\* `continue`: on to the next iteration
Continue(e, max_it) == LoopHead([e EXCEPT !.iteration = @ + 1], max_it)

\* faulty variant of Except: the error text is never returned
Except_AlwaysContinue(e, max_it, msg) ==
    Continue([e EXCEPT !.caught = Append(@, [iteration |-> e.iteration, message |-> msg])],
             max_it)

\* the except clause of the loop body
Except(e, max_it, msg) ==
    LET e1 == [e EXCEPT !.caught = Append(@, [iteration |-> e.iteration, message |-> msg])]
    IN  IF e.iteration = max_it - 1
        THEN Return(e1, ErrorMessage(msg), "error")
        ELSE Continue(e1, max_it)

\* faulty variant of StartQuery: the conversation is seeded with the user
\* message only
StartQuery_UserOnly(user_query, max_it) ==
    LoopHead([IdleEpisode EXCEPT !.user_query = user_query,
                                 !.messages = <<UserMessage(user_query)>>],
             max_it)

\* the first lines of process_query: the two seed messages, then the loop
StartQuery(user_query, max_it) ==
    LoopHead([IdleEpisode EXCEPT !.user_query = user_query,
                                 !.messages = <<SystemMessage, UserMessage(user_query)>>],
             max_it)

\* faulty variant of Replied: what is returned is not the final reply's content
Replied_EchoesQuery(e, reply) ==
    LET e1 == [e EXCEPT !.sent = Append(@, e.messages),
                        !.messages = Append(@, AssistantMessage(reply)),
                        !.issued = @ + Len(reply.tool_calls)]
    IN  IF reply.tool_calls # <<>>
        THEN [e1 EXCEPT !.pc = "act", !.tool_calls = reply.tool_calls, !.idx = 1]
        ELSE Return(e1, e.user_query, "final")

\* the backend call returned `reply`: the reply is appended, then either the
\* loop over its tool calls begins or its content is returned
Replied(e, reply) ==
    LET e1 == [e EXCEPT !.sent = Append(@, e.messages),
                        !.messages = Append(@, AssistantMessage(reply)),
                        !.issued = @ + Len(reply.tool_calls)]
    IN  IF reply.tool_calls # <<>>
        THEN [e1 EXCEPT !.pc = "act", !.tool_calls = reply.tool_calls, !.idx = 1]
        ELSE Return(e1, reply.content, "final")

\* faulty variant of Failed: the failure leaves a message in the conversation
Failed_LeavesMessage(e, max_it, err) ==
    Except([e EXCEPT !.sent = Append(@, e.messages),
                     !.messages = Append(@, AssistantMessage([content |-> err,
                                                              tool_calls |-> <<>>]))],
           max_it, err)

\* the backend call raised
Failed(e, max_it, err) ==
    Except([e EXCEPT !.sent = Append(@, e.messages)], max_it, err)

\* faulty variant of ToolStep: every result is keyed by the id of the reply's
\* first call
ToolStep_KeyedByFirstId(e, max_it) ==
    LET tc == e.tool_calls[e.idx]
        decoded == json_loads(tc.arguments)
    IN  IF decoded = "raise" THEN Except(e, max_it, JSONDecodeError)
        ELSE IF decoded # "dict" THEN Except(e, max_it, NotAMappingError)
        ELSE IF BindingRaises(tc.arguments) THEN Except(e, max_it, MultipleValuesError)
        ELSE LET tool_result == execute_tool(tc.name, tc.arguments)
                 e1 == [e EXCEPT !.executed = Append(@, tc.id),
                                 !.messages = Append(@, ToolMessage(tool_result, e.tool_calls[1].id))]
             IN  IF e.idx < Len(e.tool_calls)
                 THEN [e1 EXCEPT !.idx = @ + 1]
                 ELSE Continue(e1, max_it)

\* faulty variant of ToolStep: an exception of the handler is not turned into
\* an observation but reaches the except clause of the iteration
ToolStep_HandlerEscapes(e, max_it) ==
    LET tc == e.tool_calls[e.idx]
        decoded == json_loads(tc.arguments)
    IN  IF decoded = "raise" THEN Except(e, max_it, JSONDecodeError)
        ELSE IF decoded # "dict" THEN Except(e, max_it, NotAMappingError)
        ELSE IF BindingRaises(tc.arguments) THEN Except(e, max_it, MultipleValuesError)
        ELSE IF tc.name \in RegisteredTools /\ HandlerRaises(tc.name, tc.arguments)
             THEN Except(e, max_it, MissingArgError)
        ELSE LET tool_result == execute_tool(tc.name, tc.arguments)
                 e1 == [e EXCEPT !.executed = Append(@, tc.id),
                                 !.messages = Append(@, ToolMessage(tool_result, tc.id))]
             IN  IF e.idx < Len(e.tool_calls)
                 THEN [e1 EXCEPT !.idx = @ + 1]
                 ELSE Continue(e1, max_it)

\* the body of `for tool_call in assistant_message.tool_calls` for the call
\* at e.idx, and what follows the loop when it was the last one
ToolStep(e, max_it) ==
    LET tc == e.tool_calls[e.idx]
        decoded == json_loads(tc.arguments)
    IN  IF decoded = "raise" THEN Except(e, max_it, JSONDecodeError)
        ELSE IF decoded # "dict" THEN Except(e, max_it, NotAMappingError)
        ELSE IF BindingRaises(tc.arguments) THEN Except(e, max_it, MultipleValuesError)
        ELSE LET tool_result == execute_tool(tc.name, tc.arguments)
                 e1 == [e EXCEPT !.executed = Append(@, tc.id),
                                 !.messages = Append(@, ToolMessage(tool_result, tc.id))]
             IN  IF e.idx < Len(e.tool_calls)
                 THEN [e1 EXCEPT !.idx = @ + 1]
                 ELSE Continue(e1, max_it)

\* the record process_query appends to self.conversation_history when it
\* returns a final answer (the timestamp is left out)
HistoryEntry(e) ==
    [user_query |-> e.user_query, assistant_response |-> e.result,
     iterations |-> e.iteration + 1]

(***************************************************************************)
(* The replies the backend may give in episode state e.                    *)
(***************************************************************************)
\* the tool calls of a reply: n calls, ids fresh (the backend's ids are unique)
ToolCallLists(e) ==
    UNION { { [j \in 1..n |-> [id |-> e.issued + j, name |-> f[j][1], arguments |-> f[j][2]]]
              : f \in [1..n -> ToolRequests] }
            : n \in 1..(MaxCalls - e.issued) }

Replies(e) ==
    { [content |-> c, tool_calls |-> <<>>] : c \in Answers }
    \cup { [content |-> ToolReplyContent, tool_calls |-> tcs] : tcs \in ToolCallLists(e) }

(***************************************************************************)
(* MedicalAgent.chat, as its callers call it.                              *)
(***************************************************************************)
\* chat(self, user_input) takes one argument besides self
ChatAccepts(nargs) == nargs = 1

(***************************************************************************)
(* MedicalQASystem: the object's fields and what its methods do to them.   *)
(* Python's None is written "None"; an object that does not exist has      *)
(* id 0.  A method that raises leaves the assignments it made before the   *)
(* exception in place.                                                     *)
(***************************************************************************)
\* valid_modes
ValidModes == {"rag", "llm", "agent"}

\* mode names callers pass: the three modes, one in capitals, an unsupported one
ModeNames == {"rag", "llm", "agent", "RAG", "chat"}

\* str.lower on the mode names
lower(name) == IF name = "RAG" THEN "rag" ELSE name

\* what MedicalRAGRetriever(vector_store_path) does: an object with the index
\* loaded, an object whose vector_store is None, or an exception of the
\* embedding model
RetrieverOutcomes == {"loaded", "unloaded", "raise"}

\* default of MedicalAgent's max_iterations
DefaultMaxIterations == 5
\* MedicalQASystem.__init__(max_context_length=4000); answer_question(k=3)
DefaultMaxContextLength == 4000
DefaultK == 3

QAAgentPrompt == "QA_AGENT_PROMPT"
QARagPrompt == "QA_RAG_PROMPT"
QALlmPrompt == "QA_LLM_PROMPT"

NoAgent ==
    [id |-> 0, enable_rag |-> FALSE, rag_retriever |-> "None", client |-> 0,
     conversation_history |-> <<>>, max_iterations |-> 0]

\* MedicalAgent.__init__ as MedicalQASystem calls it: a new client, the
\* retriever when RAG is enabled (its failure is caught and turns RAG off),
\* an empty history
MedicalAgent_init(id, enable_rag, rc) ==
    [id |-> id,
     enable_rag |-> enable_rag /\ rc # "raise",
     rag_retriever |-> IF enable_rag /\ rc # "raise" THEN rc ELSE "None",
     client |-> id,
     conversation_history |-> <<>>,
     max_iterations |-> DefaultMaxIterations]

\* no MedicalQASystem object
NoSystem ==
    [built |-> FALSE, mode |-> "", enable_rag |-> FALSE, agent |-> NoAgent,
     retriever |-> "None", client |-> 0, system_prompt |-> "",
     max_context_length |-> DefaultMaxContextLength]

\* MedicalQASystem._build_system_prompt
build_system_prompt(sys) ==
    IF sys.mode = "agent" THEN QAAgentPrompt
    ELSE IF sys.enable_rag THEN QARagPrompt
    ELSE QALlmPrompt

\* what a method of the controller did: the object after it, the exception
\* that escaped it ("" for none), the components it constructed
Done(sys, raised, created) == [sys |-> sys, raised |-> raised, created |-> created]

\* the components MedicalAgent.__init__ constructs
AgentParts(agent) ==
    {"agent", "client"} \cup (IF agent.rag_retriever # "None" THEN {"retriever"} ELSE {})

\* faulty variant of MedicalQASystem_init: the mode is validated after the
\* client is created
MedicalQASystem_init_ValidatesLate(mode, enable_rag, rc, id) ==
    LET m == lower(mode)
        en == enable_rag /\ m \in {"rag", "agent"}
        s0 == [NoSystem EXCEPT !.built = TRUE, !.mode = m, !.enable_rag = en]
    IN  IF m \notin ValidModes THEN Done(NoSystem, "ValueError", {"client"})
        ELSE IF m = "agent"
        THEN LET a == MedicalAgent_init(id, en, rc)
                 s1 == [s0 EXCEPT !.agent = a, !.retriever = "None", !.client = a.client]
             IN  IF en
                 THEN Done(NoSystem, "AttributeError", AgentParts(a))
                 ELSE Done([s1 EXCEPT !.system_prompt = build_system_prompt(s1)],
                           "", AgentParts(a))
        ELSE IF en /\ rc = "raise" THEN Done(NoSystem, "RetrieverError", {})
        ELSE LET s1 == [s0 EXCEPT !.retriever = IF en THEN rc ELSE "None",
                                  !.client = id]
             IN  Done([s1 EXCEPT !.system_prompt = build_system_prompt(s1)], "",
                      {"client"} \cup (IF en THEN {"retriever"} ELSE {}))

\* MedicalQASystem.__init__(mode=mode, enable_rag=enable_rag); id names the
\* objects it creates, rc is what the retriever's constructor does
MedicalQASystem_init(mode, enable_rag, rc, id) ==
    LET m == lower(mode)
        en == enable_rag /\ m \in {"rag", "agent"}
        s0 == [NoSystem EXCEPT !.built = TRUE, !.mode = m, !.enable_rag = en]
    IN  IF m \notin ValidModes THEN Done(NoSystem, "ValueError", {})
        ELSE IF m = "agent"
        THEN LET a == MedicalAgent_init(id, en, rc)
                 s1 == [s0 EXCEPT !.agent = a, !.retriever = "None", !.client = a.client]
             IN  IF en
                 THEN \* self.agent.retriever: MedicalAgent has no such attribute
                      Done(NoSystem, "AttributeError", AgentParts(a))
                 ELSE Done([s1 EXCEPT !.system_prompt = build_system_prompt(s1)],
                           "", AgentParts(a))
        ELSE IF en /\ rc = "raise" THEN Done(NoSystem, "RetrieverError", {})
        ELSE LET s1 == [s0 EXCEPT !.retriever = IF en THEN rc ELSE "None",
                                  !.client = id]
             IN  Done([s1 EXCEPT !.system_prompt = build_system_prompt(s1)], "",
                      {"client"} \cup (IF en THEN {"retriever"} ELSE {}))

\* faulty variant of switch_mode: the mode and the flag are assigned before
\* the name is checked
switch_mode_ValidatesLate(sys, new_mode, enable_rag, rc, id) ==
    LET m == lower(new_mode)
        en == enable_rag /\ m \in {"rag", "agent"}
        s1 == [sys EXCEPT !.mode = m, !.enable_rag = en]
    IN  IF m \notin ValidModes THEN Done(s1, "", {})
        ELSE IF m = "agent"
        THEN LET a == MedicalAgent_init(id, en, rc)
                 s2 == [s1 EXCEPT !.agent = a]
                 s3 == [s2 EXCEPT !.retriever = "None", !.client = a.client]
             IN  IF en
                 THEN Done(s2, "AttributeError", AgentParts(a))
                 ELSE Done([s3 EXCEPT !.system_prompt = build_system_prompt(s3)],
                           "", AgentParts(a))
        ELSE LET s2 == [s1 EXCEPT !.agent = NoAgent]
             IN  IF en
                 THEN IF s2.retriever = "None"
                      THEN IF rc = "raise"
                           THEN Done(s2, "RetrieverError", {})
                           ELSE LET s3 == [s2 EXCEPT !.retriever = rc]
                                IN  Done([s3 EXCEPT !.system_prompt = build_system_prompt(s3)],
                                         "", {"retriever"})
                      ELSE Done([s2 EXCEPT !.system_prompt = build_system_prompt(s2)], "", {})
                 ELSE LET s3 == [s2 EXCEPT !.retriever = "None"]
                      IN  Done([s3 EXCEPT !.system_prompt = build_system_prompt(s3)], "", {})

\* MedicalQASystem.switch_mode(new_mode, enable_rag)
switch_mode(sys, new_mode, enable_rag, rc, id) ==
    LET m == lower(new_mode)
        en == enable_rag /\ m \in {"rag", "agent"}
        s1 == [sys EXCEPT !.mode = m, !.enable_rag = en]
    IN  IF m \notin ValidModes THEN Done(sys, "", {})
        ELSE IF m = "agent"
        THEN LET a == MedicalAgent_init(id, en, rc)
                 s2 == [s1 EXCEPT !.agent = a]
                 s3 == [s2 EXCEPT !.retriever = "None", !.client = a.client]
             IN  IF en
                 THEN \* self.agent.retriever: MedicalAgent has no such attribute
                      Done(s2, "AttributeError", AgentParts(a))
                 ELSE Done([s3 EXCEPT !.system_prompt = build_system_prompt(s3)],
                           "", AgentParts(a))
        ELSE LET s2 == [s1 EXCEPT !.agent = NoAgent]
             IN  IF en
                 THEN IF s2.retriever = "None"
                      THEN IF rc = "raise"
                           THEN Done(s2, "RetrieverError", {})
                           ELSE LET s3 == [s2 EXCEPT !.retriever = rc]
                                IN  Done([s3 EXCEPT !.system_prompt = build_system_prompt(s3)],
                                         "", {"retriever"})
                      ELSE Done([s2 EXCEPT !.system_prompt = build_system_prompt(s2)], "", {})
                 ELSE LET s3 == [s2 EXCEPT !.retriever = "None"]
                      IN  Done([s3 EXCEPT !.system_prompt = build_system_prompt(s3)], "", {})

\* switch_mode waits in a constructor: MedicalAgent(...) for agent,
\* MedicalRAGRetriever(...) when RAG is enabled and no retriever is held
switch_mode_waits(sys, new_mode, enable_rag) ==
    LET m == lower(new_mode)
        en == enable_rag /\ m \in {"rag", "agent"}
    IN  /\ m \in ValidModes
        /\ m = "agent" \/ (en /\ sys.retriever = "None")

\* switch_mode up to the constructor it waits in: mode and enable_rag are
\* assigned, and for rag and llm the agent is dropped
switch_mode_begun(sys, new_mode, enable_rag) ==
    LET m == lower(new_mode)
        en == enable_rag /\ m \in {"rag", "agent"}
        s1 == [sys EXCEPT !.mode = m, !.enable_rag = en]
    IN  IF m = "agent" THEN s1 ELSE [s1 EXCEPT !.agent = NoAgent]

\* switch_mode from the return of the constructor on; sys is the object as
\* it is then: the branch was chosen and the constructor's arguments were
\* read before the wait, self.enable_rag and the fields the prompt is built
\* from are read after it
switch_mode_resumed(sys, new_mode, enable_rag, rc, id) ==
    LET m == lower(new_mode)
        en == enable_rag /\ m \in {"rag", "agent"}
    IN  IF m = "agent"
        THEN LET a == MedicalAgent_init(id, en, rc)
                 s2 == [sys EXCEPT !.agent = a]
                 s3 == [s2 EXCEPT !.retriever = "None", !.client = a.client]
             IN  IF sys.enable_rag
                 THEN Done(s2, "AttributeError", AgentParts(a))
                 ELSE Done([s3 EXCEPT !.system_prompt = build_system_prompt(s3)],
                           "", AgentParts(a))
        ELSE IF rc = "raise"
        THEN Done(sys, "RetrieverError", {})
        ELSE LET s3 == [sys EXCEPT !.retriever = rc]
             IN  Done([s3 EXCEPT !.system_prompt = build_system_prompt(s3)],
                      "", {"retriever"})

\* the argument of toggle_rag_mode: None (flip), True, False
ToggleArgs == {"None", "True", "False"}

\* the flag toggle_rag_mode assigns
Toggled(sys, enable_rag) ==
    IF enable_rag = "None" THEN ~sys.enable_rag ELSE enable_rag = "True"

\* toggle_rag_mode waits in MedicalRAGRetriever(...): RAG is switched on
\* and no retriever is held
toggle_rag_mode_waits(sys, enable_rag) ==
    sys.mode # "agent" /\ Toggled(sys, enable_rag) /\ sys.retriever = "None"

\* toggle_rag_mode up to the constructor it waits in: enable_rag is assigned
toggle_rag_mode_begun(sys, enable_rag) ==
    [sys EXCEPT !.enable_rag = Toggled(sys, enable_rag)]

\* toggle_rag_mode from the return of the constructor on; sys is the object
\* as it is then
toggle_rag_mode_resumed(sys, rc) ==
    IF rc = "raise"
    THEN Done(sys, "RetrieverError", {})
    ELSE LET s2 == [sys EXCEPT !.retriever = rc]
         IN  Done([s2 EXCEPT !.system_prompt = build_system_prompt(s2)],
                  "", {"retriever"})

\* MedicalQASystem.toggle_rag_mode(enable_rag)
toggle_rag_mode(sys, enable_rag, rc) ==
    IF sys.mode = "agent" THEN Done(sys, "", {})
    ELSE LET en == Toggled(sys, enable_rag)
             s1 == [sys EXCEPT !.enable_rag = en]
         IN  IF en /\ s1.retriever = "None"
             THEN IF rc = "raise"
                  THEN Done(s1, "RetrieverError", {})
                  ELSE LET s2 == [s1 EXCEPT !.retriever = rc]
                       IN  Done([s2 EXCEPT !.system_prompt = build_system_prompt(s2)],
                                "", {"retriever"})
             ELSE Done([s1 EXCEPT !.system_prompt = build_system_prompt(s1)], "", {})

(***************************************************************************)
(* answer_question.                                                        *)
(***************************************************************************)
\* Texts whose length or content the code inspects are sequences of
\* characters, one string per character (a Chinese character is written as
\* its pinyin syllable).
Min(a, b) == IF a <= b THEN a ELSE b

\* sep.join(parts) on texts
RECURSIVE Join(_, _)
Join(parts, sep) ==
    IF parts = <<>> THEN <<>>
    ELSE IF Len(parts) = 1 THEN parts[1]
    ELSE parts[1] \o sep \o Join(Tail(parts), sep)

\* the documents of the vector store: page_content, metadata, and the score
\* the store reports for the query, in thousandths
DocA == [page_content |-> <<"a", "b", "c", "d">>,
         metadata |-> [source |-> <<"d", "/", "a">>], score |-> 812]
DocB == [page_content |-> <<"e", "f", "g", "h", "i", "j", "k">>,
         metadata |-> [source |-> <<"b">>], score |-> 640]
DocC == [page_content |-> <<"m", "n">>,
         metadata |-> [page |-> 7], score |-> 0 - 250]
DocD == [page_content |-> <<"p">>,
         metadata |-> [source |-> <<>>], score |-> 0]

\* what vector_store.similarity_search_with_score does: it raises, or it
\* has documents in its order of relevance
Index(raises, docs) == [raises |-> raises, docs |-> docs]

\* vector_store.similarity_search_with_score(query, k): the first k documents
similarity_search_with_score(index, k) ==
    SubSeq(index.docs, 1, Min(k, Len(index.docs)))

\* score_threshold: float = 0.0, in thousandths
DefaultScoreThreshold == 0

\* metadata.get('source', 'Unknown')
Unknown == <<"U", "n", "k", "n", "o", "w", "n">>
SourceOf(metadata) ==
    IF "source" \in DOMAIN metadata THEN metadata.source ELSE Unknown

\* the dictionary similarity_search builds of the i-th (doc, score)
FormattedResult(i, doc) ==
    [rank |-> i, content |-> doc.page_content, metadata |-> doc.metadata,
     similarity_score |-> doc.score, source |-> SourceOf(doc.metadata)]

\* the loop of similarity_search over results[from..]
RECURSIVE FormatFrom(_, _, _)
FormatFrom(results, from, score_threshold) ==
    IF from > Len(results) THEN <<>>
    ELSE (IF results[from].score >= score_threshold
          THEN <<FormattedResult(from, results[from])>> ELSE <<>>)
         \o FormatFrom(results, from + 1, score_threshold)

\* faulty variant of similarity_search: the exception of the store escapes
similarity_search_Raises(retriever, index, k, score_threshold) ==
    IF retriever = "unloaded" THEN [raised |-> FALSE, results |-> <<>>]
    ELSE IF index.raises THEN [raised |-> TRUE, results |-> <<>>]
    ELSE [raised |-> FALSE,
          results |-> FormatFrom(similarity_search_with_score(index, k), 1,
                                 score_threshold)]

\* MedicalRAGRetriever.similarity_search(query, k, score_threshold) on a
\* retriever whose vector store is loaded or not
similarity_search(retriever, index, k, score_threshold) ==
    IF retriever = "unloaded" THEN [raised |-> FALSE, results |-> <<>>]
    ELSE IF index.raises THEN [raised |-> FALSE, results |-> <<>>]
    ELSE [raised |-> FALSE,
          results |-> FormatFrom(similarity_search_with_score(index, k), 1,
                                 score_threshold)]

\* None where a text is expected
NoneText == <<"None">>

\* "未找到相关医疗知识。"
NoKnowledgeText ==
    <<"wei", "zhao", "dao", "xiang", "guan", "yi", "liao", "zhi", "shi", ".">>
\* "\n\n" + "=" * 50
ContextHeader == [i \in 1..52 |-> IF i <= 2 THEN "\n" ELSE "="]

\* source.split('/')[-1] if '/' in source else source
Basename(source) ==
    LET slashes == {i \in 1..Len(source) : source[i] = "/"}
    IN  IF slashes = {} THEN source
        ELSE LET last == CHOOSE i \in slashes : \A j \in slashes : j <= i
             IN  SubSeq(source, last + 1, Len(source))

\* str(n) of a natural number
Digit(d) == <<"0", "1", "2", "3", "4", "5", "6", "7", "8", "9">>[d + 1]
RECURSIVE Digits(_)
Digits(n) == IF n < 10 THEN <<Digit(n)>> ELSE Digits(n \div 10) \o <<Digit(n % 10)>>

\* f"{similarity:.3f}" of a score given in thousandths
Format3f(n) ==
    LET a == IF n < 0 THEN 0 - n ELSE n
    IN  (IF n < 0 THEN <<"-">> ELSE <<>>)
        \o Digits(a \div 1000) \o <<".">>
        \o <<Digit((a \div 100) % 10), Digit((a \div 10) % 10), Digit(a % 10)>>

\* content[:max_context_length // k] + "..." when the content is longer
Ellipsis == <<".", ".", ".">>
\* faulty variant of Truncate: the cut content carries no marker
Truncate_NoMarker(content, cut) ==
    IF Len(content) > cut THEN SubSeq(content, 1, cut) ELSE content
Truncate(content, cut) ==
    IF Len(content) > cut THEN SubSeq(content, 1, cut) \o Ellipsis ELSE content

\* f"【来源: {source} | 相似度: {similarity:.3f}】\n"
SegmentLabel(result) ==
    <<"[", "lai", "yuan", ":", " ">> \o Basename(result.source)
    \o <<" ", "|", " ", "xiang", "si", "du", ":", " ">>
    \o Format3f(result.similarity_score) \o <<"]", "\n">>

\* the part retrieve_context appends for one result
ContextPart(result, cut) == SegmentLabel(result) \o Truncate(result.content, cut)

\* faulty variant of retrieve_context: an empty search gives the empty text
retrieve_context_NoSentinel(sys, index, k) ==
    IF ~sys.enable_rag \/ sys.retriever = "None"
    THEN [context |-> <<>>, search_results |-> <<>>, queried |-> FALSE]
    ELSE LET search_results ==
                 similarity_search(sys.retriever, index, k, DefaultScoreThreshold).results
             cut == sys.max_context_length \div k
         IN  IF search_results = <<>>
             THEN [context |-> <<>>, search_results |-> <<>>, queried |-> TRUE]
             ELSE [context |-> ContextHeader \o
                      Join([i \in 1..Len(search_results) |->
                                ContextPart(search_results[i], cut)], <<"\n", "\n">>),
                   search_results |-> search_results, queried |-> TRUE]

\* faulty variant of retrieve_context: a retriever that exists is searched
\* whatever enable_rag says
retrieve_context_IgnoresFlag(sys, index, k) ==
    IF sys.retriever = "None"
    THEN [context |-> <<>>, search_results |-> <<>>, queried |-> FALSE]
    ELSE LET search_results ==
                 similarity_search(sys.retriever, index, k, DefaultScoreThreshold).results
             cut == sys.max_context_length \div k
         IN  IF search_results = <<>>
             THEN [context |-> NoKnowledgeText, search_results |-> <<>>, queried |-> TRUE]
             ELSE [context |-> ContextHeader \o
                      Join([i \in 1..Len(search_results) |->
                                ContextPart(search_results[i], cut)], <<"\n", "\n">>),
                   search_results |-> search_results, queried |-> TRUE]

\* MedicalQASystem.retrieve_context(question, k)
retrieve_context(sys, index, k) ==
    IF ~sys.enable_rag \/ sys.retriever = "None"
    THEN [context |-> <<>>, search_results |-> <<>>, queried |-> FALSE]
    ELSE LET search_results ==
                 similarity_search(sys.retriever, index, k, DefaultScoreThreshold).results
             cut == sys.max_context_length \div k
         IN  IF search_results = <<>>
             THEN [context |-> NoKnowledgeText, search_results |-> <<>>, queried |-> TRUE]
             ELSE [context |-> ContextHeader \o
                      Join([i \in 1..Len(search_results) |->
                                ContextPart(search_results[i], cut)], <<"\n", "\n">>),
                   search_results |-> search_results, queried |-> TRUE]

\* the index as the controller's operations meet it
IndexOutcomes ==
    { Index(TRUE, <<>>), Index(FALSE, <<>>), Index(FALSE, <<DocA>>),
      Index(FALSE, <<DocA, DocB>>) }

\* the questions asked of the controller
QAQuestions == {"q1"}

\* what the backend does with the one call of generate_answer
GenerateOutcomes ==
    { [raises |-> TRUE, content |-> ""] }
    \cup { [raises |-> FALSE, content |-> c] : c \in Answers }

\* the two user messages and the answer of the except branch: a fixed
\* template and the texts interpolated into it
UserMessageWithContext(question, context) ==
    [template |-> "answer from the knowledge below", context |-> context,
     question |-> question]
UserMessagePlain(question) ==
    [template |-> "answer from your own knowledge", question |-> question]
DegradedAnswer(context) ==
    [template |-> "sorry, generation failed; related content follows",
     context |-> context]

\* a call of client.chat.completions.create: the client, the messages, and
\* whether the tools parameter was passed
BackendCall(client, messages, with_tools) ==
    [client |-> client, messages |-> messages, tools |-> with_tools]

\* faulty variant of generate_answer: the call passes the tool schema
generate_answer_WithTools(sys, question, context, backend) ==
    LET user_message == IF sys.enable_rag /\ context # <<>>
                        THEN UserMessageWithContext(question, context)
                        ELSE UserMessagePlain(question)
        call == BackendCall(sys.client,
                            << [role |-> "system", content |-> sys.system_prompt],
                               [role |-> "user", content |-> user_message] >>,
                            TRUE)
    IN  [answer |-> IF backend.raises THEN DegradedAnswer(context) ELSE backend.content,
         calls |-> <<call>>]

\* faulty variant of generate_answer: the answer of the except branch leaves
\* the context out
generate_answer_NoContext(sys, question, context, backend) ==
    LET user_message == IF sys.enable_rag /\ context # <<>>
                        THEN UserMessageWithContext(question, context)
                        ELSE UserMessagePlain(question)
        call == BackendCall(sys.client,
                            << [role |-> "system", content |-> sys.system_prompt],
                               [role |-> "user", content |-> user_message] >>,
                            FALSE)
    IN  [answer |-> IF backend.raises THEN DegradedAnswer(<<>>) ELSE backend.content,
         calls |-> <<call>>]

\* MedicalQASystem.generate_answer
generate_answer(sys, question, context, backend) ==
    LET user_message == IF sys.enable_rag /\ context # <<>>
                        THEN UserMessageWithContext(question, context)
                        ELSE UserMessagePlain(question)
        call == BackendCall(sys.client,
                            << [role |-> "system", content |-> sys.system_prompt],
                               [role |-> "user", content |-> user_message] >>,
                            FALSE)
    IN  [answer |-> IF backend.raises THEN DegradedAnswer(context) ELSE backend.content,
         calls |-> <<call>>]

\* what answer_question did: the object after it, the returned envelope,
\* the exception that escaped, the backend calls made, whether
\* process_query ran, the tool calls executed, whether the index was queried;
\* for the agent path also what agent.chat returned and by which return
\* statement of process_query; for the other path the text retrieve_context
\* returned and whether the backend call raised
Answered(sys, envelope, calls, loop_entered, executed, queried) ==
    [sys |-> sys, raised |-> "", envelope |-> envelope, backend_calls |-> calls,
     loop_entered |-> loop_entered, executed |-> executed, index_queried |-> queried,
     agent_result |-> "None", episode_exit |-> "", episode_iteration |-> 0,
     retrieved |-> <<>>, backend_raised |-> FALSE]

\* MedicalQASystem._answer_with_rag_or_llm from the return of
\* retrieve_context on: rc is what it returned, held the object as
\* generate_answer read it before the backend call, sys the object when the
\* backend call has returned and the envelope is built
rag_or_llm_returned(rc, held, sys, question, show_context, backend) ==
    LET ga == generate_answer(held, question, rc.context, backend)
        result ==
            [question |-> question,
             answer |-> ga.answer,
             search_results |-> rc.search_results,
             retrieval_success |-> Len(rc.search_results) > 0,
             sources |-> [i \in 1..Len(rc.search_results) |-> rc.search_results[i].source],
             context |-> IF show_context THEN rc.context ELSE NoneText,
             mode |-> IF sys.enable_rag THEN "RAG mode" ELSE "LLM mode",
             rag_enabled |-> sys.enable_rag]
    IN  [Answered(sys, result, ga.calls, FALSE, <<>>, rc.queried)
            EXCEPT !.retrieved = rc.context, !.backend_raised = backend.raises]

\* MedicalQASystem._answer_with_rag_or_llm, no other thread running
\* during its waits
answer_with_rag_or_llm(sys, question, show_context, index, backend) ==
    rag_or_llm_returned(retrieve_context(sys, index, DefaultK), sys, sys,
                        question, show_context, backend)

\* what the backend does at the invocations of one episode: it fails,
\* answers, or requests tools
ScriptSteps ==
    { [kind |-> "fail", content |-> "backend unavailable", requests |-> <<>>],
      [kind |-> "answer", content |-> "answer_a", requests |-> <<>>],
      [kind |-> "tools", content |-> ToolReplyContent,
       requests |-> << <<"drug_information", ArgsGood>> >>],
      [kind |-> "tools", content |-> ToolReplyContent,
       requests |-> << <<"drug_information", ArgsMissing>>, <<"no_such_tool", ArgsGood>> >>] }

\* the outcomes of the successive invocations; the last one repeats
Scripts ==
    UNION { [1..n -> ScriptSteps] : n \in 1..MaxScript }

\* what the backend does at the invocations of the episode answer_question
\* runs in agent mode: it fails, answers, or requests a tool that succeeds,
\* one whose handler raises and one that is not registered
QAScriptSteps ==
    { [kind |-> "fail", content |-> "backend unavailable", requests |-> <<>>],
      [kind |-> "answer", content |-> "answer_a", requests |-> <<>>],
      [kind |-> "tools", content |-> ToolReplyContent,
       requests |-> << <<"drug_information", ArgsGood>>,
                       <<"drug_information", ArgsMissing>>,
                       <<"no_such_tool", ArgsGood>> >>] }

\* the outcomes of its successive invocations; the last one repeats
QAScripts == [1..MaxScript -> QAScriptSteps]

\* the reply of a script step, its tool calls given fresh ids
ReplyOf(step, e) ==
    [content |-> step.content,
     tool_calls |-> [j \in 1..Len(step.requests) |->
                        [id |-> e.issued + j, name |-> step.requests[j][1],
                         arguments |-> step.requests[j][2]]]]

\* the loop of process_query run to its return against the script
RECURSIVE RunEpisode(_, _, _)
RunEpisode(e, script, max_it) ==
    IF e.pc = "returned" THEN e
    ELSE IF e.pc = "act" THEN RunEpisode(ToolStep(e, max_it), script, max_it)
    ELSE LET step == script[1]
             rest == IF Len(script) > 1 THEN Tail(script) ELSE script
         IN  IF step.kind = "fail"
             THEN RunEpisode(Failed(e, max_it, step.content), rest, max_it)
             ELSE RunEpisode(Replied(e, ReplyOf(step, e)), rest, max_it)

\* MedicalAgent.chat(user_input) on the agent object: the finished episode
\* and the agent after it
chat(agent, user_input, script) ==
    LET e == RunEpisode(StartQuery(user_input, agent.max_iterations), script,
                        agent.max_iterations)
    IN  [episode |-> e,
         agent |-> IF e.exit = "final"
                   THEN [agent EXCEPT !.conversation_history = Append(@, HistoryEntry(e))]
                   ELSE agent]

StrIndexError == "string indices must be integers, not 'str'"
NoneChatError == "'NoneType' object has no attribute 'chat'"
AgentErrorText(msg) == "AGENT_ERROR: " \o msg
AgentModeName(sys) == "Agent mode" \o (IF sys.enable_rag THEN "(RAG)" ELSE "")

\* the dictionary of the except branch of _answer_with_agent
ErrorEnvelope(sys, question, msg) ==
    [question |-> question,
     answer |-> AgentErrorText(msg),
     search_results |-> <<>>,
     retrieval_success |-> FALSE,
     sources |-> <<>>,
     context |-> NoneText,
     mode |-> AgentModeName(sys),
     rag_enabled |-> sys.enable_rag,
     error |-> msg]

\* the calls of the backend an episode made: each with the tools parameter
EpisodeCalls(agent, e) ==
    [k \in 1..Len(e.sent) |-> BackendCall(agent.client, e.sent[k], TRUE)]

\* faulty variant of answer_with_agent: no try/except around the body
answer_with_agent_NoTry(sys, question, script) ==
    IF sys.agent.id = 0
    THEN [Answered(sys, ErrorEnvelope(sys, question, NoneChatError), <<>>, FALSE, <<>>, FALSE)
            EXCEPT !.raised = "AttributeError"]
    ELSE LET c == chat(sys.agent, question, script)
             sys1 == [sys EXCEPT !.agent = c.agent]
         IN  [Answered(sys1, ErrorEnvelope(sys1, question, StrIndexError),
                       EpisodeCalls(sys.agent, c.episode), TRUE, c.episode.executed, FALSE)
                EXCEPT !.raised = "TypeError",
                       !.agent_result = c.episode.result,
                       !.episode_exit = c.episode.exit,
                       !.episode_iteration = c.episode.iteration]

\* MedicalQASystem._answer_with_agent: agent.chat returns a str, and
\* agent_result['response'] on a str raises TypeError inside the try
answer_with_agent(sys, question, script) ==
    IF sys.agent.id = 0
    THEN Answered(sys, ErrorEnvelope(sys, question, NoneChatError), <<>>, FALSE, <<>>, FALSE)
    ELSE LET c == chat(sys.agent, question, script)
             sys1 == [sys EXCEPT !.agent = c.agent]
         IN  [Answered(sys1, ErrorEnvelope(sys1, question, StrIndexError),
                       EpisodeCalls(sys.agent, c.episode), TRUE, c.episode.executed, FALSE)
                EXCEPT !.agent_result = c.episode.result,
                       !.episode_exit = c.episode.exit,
                       !.episode_iteration = c.episode.iteration]

\* MedicalQASystem.answer_question
answer_question(sys, question, show_context, index, backend, script) ==
    IF sys.mode = "agent"
    THEN answer_with_agent(sys, question, script)
    ELSE answer_with_rag_or_llm(sys, question, show_context, index, backend)

\* outcomes handed to answer_question for what the path taken does not consult
IdleIndex == Index(FALSE, <<>>)
IdleBackend == [raises |-> TRUE, content |-> ""]
IdleScript == << [kind |-> "fail", content |-> "backend unavailable", requests |-> <<>>] >>

\* no envelope was returned
NoEnvelope == [none |-> "None"]

\* self.retriever.similarity_search at a retriever that is None:
\* AttributeError, raised outside any try of answer_question
SearchOnNone(sys) ==
    [Answered(sys, NoEnvelope, <<>>, FALSE, <<>>, FALSE)
        EXCEPT !.raised = "AttributeError"]

\* nothing was called yet
NoOutcome ==
    [op |-> "", args |-> <<>>, from_mode |-> "", raised |-> "", created |-> {},
     envelope |-> NoEnvelope, backend_calls |-> <<>>, loop_entered |-> FALSE,
     executed |-> <<>>, index_queried |-> FALSE, after |-> <<>>,
     agent_result |-> "None", episode_exit |-> "", episode_iteration |-> 0,
     retrieved |-> <<>>, backend_raised |-> FALSE,
     from_rag |-> FALSE, concurrent |-> FALSE]

\* the calls that may wait, in a constructor, in the search or in a backend
\* call, when a thread of the host begins a further call
MaxWaiting == 1

\* no call.  A call that waits keeps: the operation and its arguments;
\* where it waits (pc); the id of the objects it creates; mode and
\* enable_rag when it began and the call that had returned last; whether
\* switch_mode or toggle_rag_mode ran on another thread while it was in
\* progress; the object as the call read it before the wait (seen); what
\* retrieve_context returned (rc)
NoCall ==
    [op |-> "", args |-> <<>>, pc |-> "", id |-> 0, from_mode |-> "",
     from_rag |-> FALSE, after |-> <<>>, concurrent |-> FALSE, seen |-> NoSystem,
     rc |-> [context |-> <<>>, search_results |-> <<>>, queried |-> FALSE]]
NoCalls == {}

\* the operations that reconfigure the object
ControllerOps == {"switch_mode", "toggle_rag_mode"}

(***************************************************************************)
(* The six reference tools.  The text a tool returns is a sequence of      *)
(* pieces: a fixed phrase of the source is one piece, named in English;    *)
(* a symptom, a keyword or a condition, which the code searches, is        *)
(* spelled character by character, a Chinese character written as its      *)
(* pinyin syllable (with its tone where two characters share a syllable).  *)
(***************************************************************************)
\* key in symptom
Contains(text, key) ==
    \E i \in 0..(Len(text) - Len(key)) : SubSeq(text, i + 1, i + Len(key)) = key

\* the symptoms given to the tools: 剧烈头痛, 突发胸痛, 持续发热, 咳嗽, 夜间咳嗽,
\* 盗汗
SevereHeadache == <<"ju", "lie", "tou", "tong">>
SuddenChestPain == <<"tu", "fa", "xiong", "tong">>
LastingFever == <<"chi", "xu", "fa", "re">>
Cough == <<"ke", "sou">>
NightCough == <<"ye", "jian", "ke", "sou">>
NightSweat == <<"dao", "han">>
Symptoms == {SevereHeadache, SuddenChestPain, LastingFever, Cough, NightSweat}

\* emergency_symptoms: 胸痛, 呼吸困难, 意识模糊, 剧烈头痛, 高热, 大出血, 严重腹痛,
\* 中毒症状
emergency_symptoms ==
    << <<"xiong", "tong">>, <<"hu1", "xi", "kun", "nan">>,
       <<"yi", "shi2", "mo", "hu2">>, <<"ju", "lie", "tou", "tong">>,
       <<"gao", "re">>, <<"da", "chu", "xue">>,
       <<"yan2", "zhong4", "fu", "tong">>, <<"zhong1", "du", "zheng", "zhuang">> >>

\* urgent_symptoms: 持续发热, 剧烈咳嗽, 严重呕吐, 关节疼痛, 皮疹, 失眠
urgent_symptoms ==
    << <<"chi", "xu", "fa", "re">>, <<"ju", "lie", "ke", "sou">>,
       <<"yan2", "zhong4", "ou", "tu">>, <<"guan", "jie", "teng", "tong">>,
       <<"pi", "zhen">>, <<"shi1", "mian">> >>

\* sum(1 for symptom in symptoms for key in keys if key in symptom)
MatchCount(symptoms, keys) ==
    Cardinality({ p \in (1..Len(symptoms)) \X (1..Len(keys)) :
                    Contains(symptoms[p[1]], keys[p[2]]) })

\* the three outcomes of emergency_assessment: level, recommendation, colour
Emergency == [level |-> "jin3ji2", recommendation |-> "seek care at once or call 120",
              color |-> "red"]
Urgent == [level |-> "jiao4ji2", recommendation |-> "seek care within 24 hours",
           color |-> "yellow"]
Ordinary == [level |-> "yi1ban1",
             recommendation |-> "book an outpatient visit and watch the symptoms",
             color |-> "green"]

\* faulty variant of Classify: the keywords are not looked at
Classify_IgnoresKeywords(symptoms, severity) ==
    IF severity = "severe" THEN Emergency
    ELSE IF severity = "moderate" THEN Urgent
    ELSE Ordinary

\* faulty variant of Classify: the severity is looked at before the keywords
\* and mild ends the classification
Classify_SeverityFirst(symptoms, severity) ==
    IF severity = "mild" THEN Ordinary
    ELSE IF MatchCount(symptoms, emergency_symptoms) > 0 \/ severity = "severe"
    THEN Emergency
    ELSE IF MatchCount(symptoms, urgent_symptoms) > 0 \/ severity = "moderate"
    THEN Urgent
    ELSE Ordinary

\* the if/elif/else of emergency_assessment
Classify(symptoms, severity) ==
    IF MatchCount(symptoms, emergency_symptoms) > 0 \/ severity = "severe"
    THEN Emergency
    ELSE IF MatchCount(symptoms, urgent_symptoms) > 0 \/ severity = "moderate"
    THEN Urgent
    ELSE Ordinary

\* severity: str = "moderate"
DefaultSeverity == "moderate"

\* ToolRegistry.emergency_assessment(symptoms, severity)
emergency_assessment(symptoms, severity) ==
    LET c == Classify(symptoms, severity)
    IN  <<"urgency assessment:\n\n", "symptoms: ">> \o Join(symptoms, <<",", " ">>)
        \o <<"\n", "severity: ", severity, "\n\n">>
        \o <<"result: ", c.color, " ", c.level, "\n">>
        \o <<"advice: ", c.recommendation, "\n\n">>
        \o <<"note: for reference only, seek care when in doubt">>

\* A set of str is written as the list of its insertions, in the order the
\* code makes them.  The order in which the set is then iterated follows from
\* the hashes of the elements, which the hash seed of the process fixes, and
\* from the insertions: any order of the elements can come out, and the same
\* insertions in the same process give the same order.  The seed is written
\* as what it has decided so far: a function from lists of insertions to the
\* order their set is iterated in.

\* the elements of the set, each once, in the order of their first insertion
RECURSIVE Elements(_)
Elements(inserted) ==
    IF inserted = <<>> THEN <<>>
    ELSE LET front == Elements(SubSeq(inserted, 1, Len(inserted) - 1))
             last == inserted[Len(inserted)]
         IN  IF \E i \in 1..Len(front) : front[i] = last
             THEN front ELSE Append(front, last)

\* the orders the set can be iterated in
Orders(inserted) ==
    LET elements == Elements(inserted)
    IN  { order \in [1..Len(elements) -> {elements[i] : i \in 1..Len(elements)}] :
            \A i, j \in 1..Len(elements) : order[i] = order[j] => i = j }

\* `for x in s`, s the set the insertions made
SetOrder(seed, inserted) == seed[inserted]

\* the seed, once the set of these insertions has been iterated in this order
Shown(seed, inserted, order) ==
    IF inserted = <<>> THEN seed
    ELSE [b \in DOMAIN seed \cup {inserted} |->
            IF b = inserted THEN order ELSE seed[b]]

\* the seeds the process can have, as far as the set shows that is iterated
\* next: what is decided stays
SeedsShowing(seed, inserted) ==
    { Shown(seed, inserted, order) :
        order \in { order \in Orders(inserted) :
                      inserted \in DOMAIN seed => order = seed[inserted] } }

common_conditions ==
    << [key |-> <<"fa", "re">>, conditions |-> <<"ganmao", "liugan", "ganran">>],
       [key |-> <<"ke", "sou">>, conditions |-> <<"ganmao", "zhiqiguanyan", "feiyan">>],
       [key |-> <<"tou", "tong">>,
        conditions |-> <<"piantoutong", "jinzhangxingtoutong", "gaoxueya">>],
       [key |-> <<"xiong", "tong">>,
        conditions |-> <<"xinjiaotong", "jiroulashang", "jiaolv">>],
       [key |-> <<"fu", "tong">>,
        conditions |-> <<"weiyan", "changweiyan", "lanweiyan">>] >>

\* possible_conditions of symptom_analysis: for each symptom, for each key of
\* common_conditions the symptom contains, update(conditions)
possible_conditions(symptoms) ==
    LET keys == Len(common_conditions)
    IN  Join([n \in 1..(Len(symptoms) * keys) |->
                LET symptom == symptoms[((n - 1) \div keys) + 1]
                    entry == common_conditions[((n - 1) % keys) + 1]
                IN  IF Contains(symptom, entry.key) THEN entry.conditions ELSE <<>>],
             <<>>)

\* ToolRegistry.symptom_analysis(symptoms, patient_info): patient_info is a
\* dictionary, the empty one for None
symptom_analysis(seed, symptoms, patient_info) ==
    LET conditions == possible_conditions(symptoms)
    IN  <<"symptom analysis report:\n", "main symptoms: ">>
        \o Join(symptoms, <<"dunhao">>) \o <<"\n\n">>
        \o (IF DOMAIN patient_info # {}
            THEN <<"patient:\n">>
                 \o (IF "age" \in DOMAIN patient_info
                     THEN <<"- age: ">> \o Digits(patient_info.age) \o <<"sui\n">>
                     ELSE <<>>)
                 \o (IF "gender" \in DOMAIN patient_info
                     THEN <<"- gender: ", patient_info.gender, "\n">>
                     ELSE <<>>)
                 \o (IF "medical_history" \in DOMAIN patient_info
                     THEN <<"- history: ">>
                          \o Join([i \in 1..Len(patient_info.medical_history) |->
                                     <<patient_info.medical_history[i]>>], <<"dunhao">>)
                          \o <<"\n">>
                     ELSE <<>>)
                 \o <<"\n">>
            ELSE <<>>)
        \o (IF conditions # <<>>
            THEN <<"possible conditions: ">>
                 \o Join([i \in 1..Len(SetOrder(seed, conditions)) |->
                            <<SetOrder(seed, conditions)[i]>>], <<",", " ">>)
                 \o <<"\n\n">>
            ELSE <<>>)
        \o <<"note: for reference only, see a doctor for a diagnosis">>

\* drug_db: 阿司匹林, 布洛芬, 对乙酰氨基酚
Aspirin == <<"a", "si", "pi3", "lin">>
Ibuprofen == <<"bu", "luo", "fen">>
Paracetamol == <<"dui", "yi3", "xian", "an", "ji", "fen-phenol">>
drug_db == {Aspirin, Ibuprofen, Paracetamol}

\* str.strip() for blanks
RECURSIVE strip(_)
strip(text) ==
    IF text = <<>> THEN text
    ELSE IF Head(text) = " " THEN strip(Tail(text))
    ELSE IF text[Len(text)] = " " THEN strip(SubSeq(text, 1, Len(text) - 1))
    ELSE text

\* a field the table holds for a drug
DrugField(field, name) == <<field>> \o name

\* ToolRegistry.drug_information(drug_name)
drug_information(drug_name) ==
    LET name == strip(drug_name)
    IN  IF name \in drug_db
        THEN <<"drug: ">> \o name \o <<"\n\n">>
             \o <<"effect: ">> \o DrugField("effect of", name) \o <<"\n">>
             \o <<"dosage: ">> \o DrugField("dosage of", name) \o <<"\n">>
             \o <<"side effects: ">> \o DrugField("side effects of", name) \o <<"\n">>
             \o <<"cautions: ">> \o DrugField("cautions of", name) \o <<"\n\n">>
             \o <<"warning: use drugs under a doctor's guidance">>
        ELSE <<"no information on drug '">> \o name
             \o <<"'. ask a doctor or pharmacist">>

\* advice_db: 高血压, 糖尿病, 冠心病
advice_db == {"gaoxueya", "tangniaobing", "guanxinbing"}

\* ToolRegistry.health_advice(condition, lifestyle_factors)
health_advice(condition, lifestyle_factors) ==
    <<"health advice for '", condition, "':\n\n">>
    \o (IF condition \in advice_db
        THEN <<"diet: ", "diet for " \o condition, "\n",
               "exercise: ", "exercise for " \o condition, "\n",
               "life: ", "life for " \o condition, "\n\n">>
        ELSE <<"general advice:\n", "- balanced diet\n", "- exercise\n",
               "- regular hours\n", "- regular check-ups\n\n">>)
    \o (IF lifestyle_factors # <<>>
        THEN <<"given your lifestyle factors (">>
             \o Join([i \in 1..Len(lifestyle_factors) |-> <<lifestyle_factors[i]>>],
                     <<",", " ">>)
             \o <<"), ", "consult a doctor for a personal plan\n\n">>
        ELSE <<>>)
    \o <<"reminder: for reference only, follow the doctor's orders">>

\* department_map: 心, 胸, 呼吸, 咳嗽, 腹, 胃, 头, 关节, 皮, 眼, 耳
department_map ==
    << [key |-> <<"xin">>, department |-> "xinneike"],
       [key |-> <<"xiong">>, department |-> "xinneike"],
       [key |-> <<"hu1", "xi">>, department |-> "huxike"],
       [key |-> <<"ke", "sou">>, department |-> "huxike"],
       [key |-> <<"fu">>, department |-> "xiaohuake"],
       [key |-> <<"wei">>, department |-> "xiaohuake"],
       [key |-> <<"tou">>, department |-> "shenjingneike"],
       [key |-> <<"guan", "jie">>, department |-> "guke"],
       [key |-> <<"pi">>, department |-> "pifuke"],
       [key |-> <<"yan3">>, department |-> "yanke"],
       [key |-> <<"er">>, department |-> "erbihouke"] >>

\* recommended_departments of department_recommendation: for each symptom,
\* then for the suspected condition when one is given, for each key of
\* department_map the text contains, add(department)
recommended_departments(symptoms, suspected_condition) ==
    LET texts == symptoms \o (IF suspected_condition # <<>>
                              THEN <<suspected_condition>> ELSE <<>>)
        keys == Len(department_map)
    IN  Join([n \in 1..(Len(texts) * keys) |->
                LET text == texts[((n - 1) \div keys) + 1]
                    entry == department_map[((n - 1) % keys) + 1]
                IN  IF Contains(text, entry.key) THEN <<entry.department>> ELSE <<>>],
             <<>>)

\* ToolRegistry.department_recommendation(symptoms, suspected_condition):
\* suspected_condition is None (the empty text) or a text
department_recommendation(seed, symptoms, suspected_condition) ==
    LET departments == recommended_departments(symptoms, suspected_condition)
    IN  <<"department recommendation:\n\n", "symptoms: ">>
        \o Join(symptoms, <<",", " ">>) \o <<"\n">>
        \o (IF suspected_condition # <<>>
            THEN <<"suspected condition: ">> \o suspected_condition \o <<"\n">>
            ELSE <<>>)
        \o <<"\nrecommended departments:\n">>
        \o (IF departments # <<>>
            THEN Join([i \in 1..Len(SetOrder(seed, departments)) |->
                         <<"- ", SetOrder(seed, departments)[i], "\n">>], <<>>)
            ELSE <<"- internal medicine (first visit)\n">>)
        \o <<"\nreminder: when unsure register with internal medicine">>

\* MedicalRAGRetriever.search_relevant_docs(query, top_k)
search_relevant_docs(retriever, index, top_k) ==
    LET results == similarity_search(retriever, index, top_k, DefaultScoreThreshold).results
    IN  [i \in 1..Len(results) |->
           <<"lai", "yuan", ":", " ">> \o Basename(results[i].source) \o <<"\n">>
           \o results[i].content]

\* top_k: int = 3
DefaultTopK == 3
ConstructorError == "embedding model unavailable"

\* ToolRegistry.medical_knowledge_search(query, top_k): store is what
\* MedicalRAGRetriever() finds at the default path
medical_knowledge_search(store, query, top_k) ==
    IF store.retriever = "raise"
    THEN <<"error while searching medical knowledge: ", ConstructorError>>
    ELSE LET results == search_relevant_docs(store.retriever, store.index, top_k)
         IN  IF results = <<>> THEN <<"no relevant medical information found">>
             ELSE Join([i \in 1..Len(results) |->
                          <<"result ">> \o Digits(i) \o <<":", " ">> \o results[i]],
                       <<"\n", "\n">>)

\* the default for a keyword the call leaves out
Arg(kwargs, name, default) == IF name \in DOMAIN kwargs THEN kwargs[name] ELSE default

\* the parameter a handler requires
RequiredParameter(function) ==
    CASE function = "medical_knowledge_search" -> "query"
      [] function = "drug_information" -> "drug_name"
      [] function = "health_advice" -> "condition"
      [] OTHER -> "symptoms"

\* str(e) of the TypeError for a call without the required argument
MissingArgument(function) ==
    "ToolRegistry." \o function \o "() missing 1 required positional argument: '"
    \o RequiredParameter(function) \o "'"

\* the parameters of a handler besides self
HandlerParameters(function) ==
    CASE function = "medical_knowledge_search" -> {"query", "top_k"}
      [] function = "symptom_analysis" -> {"symptoms", "patient_info"}
      [] function = "drug_information" -> {"drug_name"}
      [] function = "health_advice" -> {"condition", "lifestyle_factors"}
      [] function = "emergency_assessment" -> {"symptoms", "severity"}
      [] function = "department_recommendation" -> {"symptoms", "suspected_condition"}

\* str(e) of the TypeError for a keyword that names no parameter
UnexpectedKeyword(function, keyword) ==
    "ToolRegistry." \o function \o "() got an unexpected keyword argument '"
    \o keyword \o "'"

\* self.tools[tool_name]["function"](**kwargs): the text returned, or the
\* exception raised; env is what the handlers read outside their arguments:
\* the vector store at the default path and the hash seed of the process
CallHandler(function, env, kwargs) ==
    IF DOMAIN kwargs \ HandlerParameters(function) # {}
    THEN [raised |-> TRUE,
          text |-> <<UnexpectedKeyword(function,
                       CHOOSE k \in DOMAIN kwargs : k \notin HandlerParameters(function))>>]
    ELSE IF RequiredParameter(function) \notin DOMAIN kwargs
    THEN [raised |-> TRUE, text |-> <<MissingArgument(function)>>]
    ELSE [raised |-> FALSE,
          text |->
            CASE function = "medical_knowledge_search" ->
                   medical_knowledge_search(env.store, kwargs.query,
                                            Arg(kwargs, "top_k", DefaultTopK))
              [] function = "symptom_analysis" ->
                   symptom_analysis(env.seed, kwargs.symptoms,
                                    Arg(kwargs, "patient_info", <<>>))
              [] function = "drug_information" -> drug_information(kwargs.drug_name)
              [] function = "health_advice" ->
                   health_advice(kwargs.condition, Arg(kwargs, "lifestyle_factors", <<>>))
              [] function = "emergency_assessment" ->
                   emergency_assessment(kwargs.symptoms,
                                        Arg(kwargs, "severity", DefaultSeverity))
              [] function = "department_recommendation" ->
                   department_recommendation(env.seed, kwargs.symptoms,
                                             Arg(kwargs, "suspected_condition", <<>>))]

\* the set the handler builds and iterates in this call, as the list of its
\* insertions; <<>> when it builds none or the call does not reach it
SetBuilt(function, kwargs) ==
    IF function \notin {"symptom_analysis", "department_recommendation"} THEN <<>>
    ELSE IF DOMAIN kwargs \ HandlerParameters(function) # {}
            \/ "symptoms" \notin DOMAIN kwargs
    THEN <<>>
    ELSE CASE function = "symptom_analysis" -> possible_conditions(kwargs.symptoms)
           [] function = "department_recommendation" ->
                recommended_departments(kwargs.symptoms,
                                        Arg(kwargs, "suspected_condition", <<>>))

\* the handler self.tools holds under tool_name, "" when it holds none
FunctionOf(reg, tool_name) ==
    IF \A i \in 1..Len(reg) : reg[i].name # tool_name THEN ""
    ELSE reg[CHOOSE i \in 1..Len(reg) : reg[i].name = tool_name].function

\* what execute_tool did: the text returned and self.tools after it
Executed(text, reg) == [text |-> text, tools |-> reg]

\* faulty variant of execute_registered: a tool is removed once it has run
execute_registered_Once(reg, env, tool_name, kwargs) ==
    IF \A i \in 1..Len(reg) : reg[i].name # tool_name
    THEN Executed(<<"tool '", tool_name, "' does not exist">>, reg)
    ELSE LET entry == reg[CHOOSE i \in 1..Len(reg) : reg[i].name = tool_name]
             r == CallHandler(entry.function, env, kwargs)
         IN  Executed(IF r.raised
                      THEN <<"error executing tool '", tool_name, "': ">> \o r.text
                      ELSE r.text,
                      SelectSeq(reg, LAMBDA e : e.name # tool_name))

\* ToolRegistry.execute_tool(tool_name, **kwargs) on the registry reg, the
\* keywords given as a record
execute_registered(reg, env, tool_name, kwargs) ==
    IF \A i \in 1..Len(reg) : reg[i].name # tool_name
    THEN Executed(<<"tool '", tool_name, "' does not exist">>, reg)
    ELSE LET entry == reg[CHOOSE i \in 1..Len(reg) : reg[i].name = tool_name]
             r == CallHandler(entry.function, env, kwargs)
         IN  Executed(IF r.raised
                      THEN <<"error executing tool '", tool_name, "': ">> \o r.text
                      ELSE r.text,
                      reg)

(***************************************************************************)
(* The quality evaluator's coverage score.  The question and the answer    *)
(* are sequences of characters; the float the code returns is written as   *)
(* the fraction in lowest terms that it is the quotient of.                *)
(***************************************************************************)
\* str.lower(), one character at a time
LowerChar(c) == IF c = "A" THEN "a" ELSE IF c = "B" THEN "b" ELSE c
str_lower(text) == [i \in 1..Len(text) |-> LowerChar(text[i])]

\* the characters str.split() without a separator splits at
Whitespace == {" ", "\t", "\n"}

\* str.split(): the runs between whitespace, in order, no empty run
RECURSIVE split_from(_, _, _)
split_from(text, i, word) ==
    LET closed == IF word = <<>> THEN <<>> ELSE <<word>>
    IN  IF i > Len(text) THEN closed
        ELSE IF text[i] \in Whitespace
             THEN closed \o split_from(text, i + 1, <<>>)
             ELSE split_from(text, i + 1, Append(word, text[i]))
split(text) == split_from(text, 1, <<>>)

\* set(list)
set(list) == {list[i] : i \in DOMAIN list}

\* the quotient n / d of two ints, d > 0
RECURSIVE GCD(_, _)
GCD(a, b) == IF b = 0 THEN a ELSE GCD(b, a % b)
Quotient(n, d) == [num |-> n \div GCD(n, d), den |-> d \div GCD(n, d)]
Zero == [num |-> 0, den |-> 1]
One == [num |-> 1, den |-> 1]

\* min(coverage, 1.0)
MinOne(coverage) == IF coverage.num > coverage.den THEN One ELSE coverage

\* the keywords compared as they stand, upper case apart from lower case
calculate_coverage_score_NoLower(question, answer, search_results) ==
    IF search_results = <<>>
    THEN Zero
    ELSE LET question_keywords == set(split(question))
             answer_keywords == set(split(answer))
         IN  MinOne(IF question_keywords # {}
                    THEN Quotient(Cardinality(question_keywords \cap answer_keywords),
                                  Cardinality(question_keywords))
                    ELSE Zero)

\* MedicalQASystem._calculate_coverage_score(question, answer, search_results)
calculate_coverage_score(question, answer, search_results) ==
    IF search_results = <<>>
    THEN Zero
    ELSE LET question_keywords == set(split(str_lower(question)))
             answer_keywords == set(split(str_lower(answer)))
             coverage == IF question_keywords # {}
                         THEN Quotient(Cardinality(question_keywords
                                                      \cap answer_keywords),
                                       Cardinality(question_keywords))
                         ELSE Zero
         IN  MinOne(coverage)

\* nothing evaluated
NoEvaluation ==
    [question |-> <<>>, answer |-> <<>>, search_results |-> <<>>,
     done |-> FALSE, score |-> Zero]

(***************************************************************************)
(* Two process_query calls side by side.  Each call has its own locals     *)
(* (messages, iteration, the reply's tool calls); the agent object and     *)
(* the module-level tool_registry are the same for both.                   *)
(***************************************************************************)
\* the call i that has not begun: its question, and what the backend will
\* do at its invocations
Waiting(user_query, script) ==
    [user_query |-> user_query, script |-> script, rest |-> script,
     e |-> IdleEpisode, overlapped |-> FALSE]

NoEpisodes == <<Waiting("q1", <<>>), Waiting("q2", <<>>)>>

\* the other call
Other(i) == 3 - i

\* process_query(user_query) begins; the ids the backend gives the tool
\* calls of one call are not given to the other
Started(call, i, max_it) ==
    [StartQuery(call.user_query, max_it) EXCEPT !.issued = (i - 1) * (max_it + 1) * 2]

\* faulty variant of Stepped: the message list is kept where both calls
\* reach it
Stepped_OneMessageList(calls, i, e1, rest) ==
    [j \in DOMAIN calls |->
        IF j = i
        THEN [calls[j] EXCEPT !.e = e1, !.rest = rest,
                              !.overlapped = @ \/ calls[Other(i)].e.pc \in {"think", "act"}]
        ELSE IF calls[j].e.pc \in {"think", "act"}
             THEN [calls[j] EXCEPT !.e.messages = e1.messages]
             ELSE calls[j]]

\* call i has taken a step: `messages` and the other names bound in
\* process_query are locals of the call, the step changes those of call i
Stepped(calls, i, e1, rest) ==
    [calls EXCEPT ![i].e = e1, ![i].rest = rest,
                  ![i].overlapped = @ \/ calls[Other(i)].e.pc \in {"think", "act"}]

(***************************************************************************)
(* Vector stores on disk.  A store is what MedicalRAGRetriever finds at a  *)
(* path: a retriever with the index loaded, or one whose vector_store is   *)
(* None because nothing is at the path.                                    *)
(***************************************************************************)
\* vector_store_path: str = "./vector_store"
DefaultVectorStorePath == "./vector_store"

\* MedicalRAGRetriever(vector_store_path): the retriever over what is at the
\* path
MedicalRAGRetriever(disk, vector_store_path) == disk[vector_store_path]

\* the store the tool's `retriever = MedicalRAGRetriever()` opens: no path is
\* passed, the default of the parameter applies
ToolStore(disk) == MedicalRAGRetriever(disk, DefaultVectorStorePath)

\* self.rag_retriever = None
NoRetriever == [retriever |-> "None", index |-> Index(FALSE, <<>>)]

\* MedicalAgent(vector_store_path=vector_store_path, enable_rag=enable_rag):
\* the fields that concern retrieval
AgentOver(disk, vector_store_path, enable_rag) ==
    IF enable_rag /\ MedicalRAGRetriever(disk, vector_store_path).retriever = "raise"
    THEN [vector_store_path |-> vector_store_path,
          enable_rag |-> FALSE,
          rag_retriever |-> NoRetriever]
    ELSE [vector_store_path |-> vector_store_path,
          enable_rag |-> enable_rag,
          rag_retriever |-> IF enable_rag
                            THEN MedicalRAGRetriever(disk, vector_store_path)
                            ELSE NoRetriever]

\* MedicalAgent.get_rag_context(query, top_k)
get_rag_context(agent, query, top_k) ==
    IF ~agent.enable_rag \/ agent.rag_retriever = NoRetriever
    THEN <<>>
    ELSE Join(search_relevant_docs(agent.rag_retriever.retriever,
                                   agent.rag_retriever.index, top_k),
              <<"\n", "\n">>)

\* no agent and nothing on disk
NoDeployment ==
    [disk |-> <<>>, agent |-> AgentOver(<<>>, "", FALSE), seed |-> <<>>,
     searches |-> <<>>]

\* nothing executed
NoToolRun ==
    [env |-> [store |-> [retriever |-> "unloaded", index |-> Index(FALSE, <<>>)],
              seed |-> <<>>],
     calls |-> <<>>]
NoAssessment == [kwargs |-> [symptoms |-> <<>>], done |-> FALSE, text |-> <<>>]

\* nothing retrieved
NoSearch == [done |-> FALSE, raised |-> FALSE, results |-> <<>>]
NoContext == [done |-> FALSE, context |-> <<>>, search_results |-> <<>>,
              queried |-> FALSE]
NoLookup ==
    [enable_rag |-> FALSE, retriever |-> "None", index |-> Index(FALSE, <<>>),
     k |-> 1, max_context_length |-> 0, search |-> NoSearch, rc |-> NoContext]

\* what is kept of the call before the last one
Summary(out) == <<out.op, out.args, out.from_mode, out.raised, out.concurrent>>

(***************************************************************************)
(* Actions.                                                                *)
(***************************************************************************)
Init ==
    /\ max_iterations \in 0..MaxIter
    /\ conversation_history = <<>>
    /\ ep = IdleEpisode
    /\ caller \in {"direct", "interactive_qa"}
    /\ chats = 0
    /\ answers = 0
    /\ tools = NewRegistry
    /\ reg_log = DefaultRegistrations
    /\ reg_out = NoOutput
    /\ qa = NoSystem
    /\ qa_out = NoOutcome
    /\ qa_ops = 0
    /\ qa_run = NoCalls
    /\ lookup = NoLookup
    /\ tool_run = NoToolRun
    /\ assessment = NoAssessment
    /\ evaluation = NoEvaluation
    /\ episodes = NoEpisodes
    /\ deployment = NoDeployment

\* agent.chat(user_input): process_query begins
Chat ==
    /\ caller = "direct"
    /\ ep.pc \in {"idle", "returned"}
    /\ chats < MaxChats
    /\ ChatAccepts(1)
    /\ \E q \in UserInputs : ep' = StartQuery(q, max_iterations)
    /\ chats' = chats + 1
    /\ answers' = IF ep'.pc = "returned" THEN answers + 1 ELSE answers
    /\ UNCHANGED <<max_iterations, conversation_history, caller>>
    /\ UNCHANGED <<registry_vars, qa_vars, bench_vars>>

\* the backend call of the iteration returns a reply
BackendReply ==
    /\ ep.pc = "think"
    /\ \E reply \in Replies(ep) :
         /\ ep' = Replied(ep, reply)
         /\ IF reply.tool_calls = <<>>
            THEN /\ conversation_history' = Append(conversation_history, HistoryEntry(ep'))
                 /\ answers' = answers + 1
            ELSE UNCHANGED <<conversation_history, answers>>
    /\ UNCHANGED <<max_iterations, caller, chats>>
    /\ UNCHANGED <<registry_vars, qa_vars, bench_vars>>

\* the backend call of the iteration raises
BackendFail ==
    /\ ep.pc = "think"
    /\ \E err \in BackendErrors : ep' = Failed(ep, max_iterations, err)
    /\ answers' = IF ep'.pc = "returned" THEN answers + 1 ELSE answers
    /\ UNCHANGED <<max_iterations, conversation_history, caller, chats>>
    /\ UNCHANGED <<registry_vars, qa_vars, bench_vars>>

\* one pass of the loop over the reply's tool calls
ExecuteTool ==
    /\ ep.pc = "act"
    /\ ep' = ToolStep(ep, max_iterations)
    /\ answers' = IF ep'.pc = "returned" THEN answers + 1 ELSE answers
    /\ UNCHANGED <<max_iterations, conversation_history, caller, chats>>
    /\ UNCHANGED <<registry_vars, qa_vars, bench_vars>>

\* one turn of interactive_qa in agent mode:
\* self.agent.chat(question, conversation_history), inside try/except
InteractiveTurn ==
    /\ caller = "interactive_qa"
    /\ chats < MaxChats
    /\ chats' = chats + 1
    /\ \E q \in UserInputs :
         IF ChatAccepts(2)
         THEN ep' = StartQuery(q, max_iterations)
         ELSE ep' = ep    \* TypeError, caught and printed by the turn
    /\ UNCHANGED <<max_iterations, conversation_history, caller, answers>>
    /\ UNCHANGED <<registry_vars, qa_vars, bench_vars>>

\* agent.reset_conversation(), between two calls of chat
ResetConversation ==
    /\ caller = "direct"
    /\ ep.pc \in {"idle", "returned"}
    /\ conversation_history' = <<>>
    /\ UNCHANGED <<max_iterations, ep, caller, chats, answers>>
    /\ UNCHANGED <<registry_vars, qa_vars, bench_vars>>

Next ==
    \/ Chat \/ BackendReply \/ BackendFail \/ ExecuteTool \/ InteractiveTurn
    \/ ResetConversation

Spec == Init /\ [][Next]_vars

(***************************************************************************)
(* The registry on its own: tools are registered after construction and    *)
(* the schema is read.                                                     *)
(***************************************************************************)
InitRegistry ==
    /\ max_iterations = 0
    /\ conversation_history = <<>>
    /\ ep = IdleEpisode
    /\ caller = "direct"
    /\ chats = 0
    /\ answers = 0
    /\ tools = NewRegistry
    /\ reg_log = DefaultRegistrations
    /\ reg_out = NoOutput
    /\ qa = NoSystem
    /\ qa_out = NoOutcome
    /\ qa_ops = 0
    /\ qa_run = NoCalls
    /\ lookup = NoLookup
    /\ tool_run = NoToolRun
    /\ assessment = NoAssessment
    /\ evaluation = NoEvaluation
    /\ episodes = NoEpisodes
    /\ deployment = NoDeployment

\* the register_tool calls of the log the host made itself, and the
\* register_default_tools calls made after construction: the host registers
\* handlers of its own, each register_default_tools makes six calls
RegisteredByHost(log) ==
    Cardinality({i \in 1..Len(log) : log[i].function \in NewHandlers})
DefaultsRepeated(log) ==
    (Len(log) - RegisteredByHost(log)) \div Len(DefaultRegistrations) - 1

\* tool_registry.register_tool(name, func, description, parameters)
RegisterTool ==
    /\ RegisteredByHost(reg_log) < MaxRegs
    /\ \E name \in NewToolNames, func \in NewHandlers,
          description \in NewDescriptions, parameters \in NewParameterSpecs :
         /\ tools' = register_tool(tools, name, func, description, parameters)
         /\ reg_log' = Append(reg_log, ToolEntry(name, func, description, parameters))
    /\ reg_out' = Returned("register_tool", <<>>)
    /\ UNCHANGED <<agent_vars, qa_vars, bench_vars>>

\* tool_registry.register_default_tools(), called again after construction:
\* its six register_tool calls, in order
RegisterDefaultTools ==
    /\ DefaultsRepeated(reg_log) < MaxDefaults
    /\ tools' = register_default_tools(tools)
    /\ reg_log' = reg_log \o DefaultRegistrations
    /\ reg_out' = Returned("register_default_tools", <<>>)
    /\ UNCHANGED <<agent_vars, qa_vars, bench_vars>>

\* tool_registry.get_tools_schema()
GetToolsSchema ==
    /\ reg_out' = Returned("get_tools_schema", get_tools_schema(tools))
    /\ UNCHANGED <<tools, reg_log>>
    /\ UNCHANGED <<agent_vars, qa_vars, bench_vars>>

NextRegistry == RegisterTool \/ RegisterDefaultTools \/ GetToolsSchema

SpecRegistry == InitRegistry /\ [][NextRegistry]_vars

(***************************************************************************)
(* The controller on its own: an object is constructed, its mode is        *)
(* switched, RAG is toggled, questions are answered.  The calls come from  *)
(* the threads of the host.  A step is what one thread does until          *)
(* another runs: a call from its beginning to its return, or the part of a *)
(* call between two of its waits (a constructor, the search, the backend   *)
(* call, agent.chat).  Assignments made before a wait are read by the      *)
(* calls of another thread; what a call reads after a wait is the object   *)
(* as another thread left it.  qa_out is the outcome of the call that      *)
(* returned in the last step, and is empty after a step that ended at a    *)
(* wait; qa_ops counts the calls begun.                                    *)
(***************************************************************************)
\* a thread begins the call op(args): what the call keeps until it returns
Begun(op, args) ==
    [NoCall EXCEPT !.op = op, !.args = args, !.id = qa_ops + 1,
                   !.from_mode = qa.mode, !.from_rag = qa.enable_rag,
                   !.after = Summary(qa_out),
                   !.concurrent = \E other \in qa_run : other.op \in ControllerOps]

\* a thread is free to begin a call
ThreadFree == Cardinality(qa_run) <= MaxWaiting

\* the calls that wait when a thread has run a part of `call`, which was
\* `was` when it last waited: call itself when it stopped at a wait; a part
\* of switch_mode or toggle_rag_mode is noted in the calls that wait
Waits(was, call, waits) ==
    { IF call.op \in ControllerOps THEN [other EXCEPT !.concurrent = TRUE] ELSE other :
        other \in qa_run \ {was} }
    \cup (IF waits THEN {call} ELSE {})

\* switch_mode(new_mode, enable_rag) on sys runs MedicalRAGRetriever(...):
\* in MedicalAgent(...) with RAG enabled, or for rag when none is held
RunsRetriever(sys, new_mode, enable_rag) ==
    /\ enable_rag
    /\ lower(new_mode) \in {"rag", "agent"}
    /\ lower(new_mode) = "agent" \/ sys.retriever = "None"

\* the outcomes drawn for the constructor of the retriever: all of them when
\* the call runs it, one when it does not
RetrieverDrawn(runs) == IF runs THEN RetrieverOutcomes ELSE {"unloaded"}

\* the call returned and did `d`
Called(call, d) ==
    [NoOutcome EXCEPT !.op = call.op, !.args = call.args,
                      !.from_mode = call.from_mode, !.from_rag = call.from_rag,
                      !.raised = d.raised, !.created = d.created,
                      !.after = call.after, !.concurrent = call.concurrent]

InitQA ==
    /\ max_iterations = 0
    /\ conversation_history = <<>>
    /\ ep = IdleEpisode
    /\ caller = "direct"
    /\ chats = 0
    /\ answers = 0
    /\ tools = NewRegistry
    /\ reg_log = DefaultRegistrations
    /\ reg_out = NoOutput
    /\ qa = NoSystem
    /\ qa_out = NoOutcome
    /\ qa_ops = 0
    /\ qa_run = NoCalls
    /\ lookup = NoLookup
    /\ tool_run = NoToolRun
    /\ assessment = NoAssessment
    /\ evaluation = NoEvaluation
    /\ episodes = NoEpisodes
    /\ deployment = NoDeployment

\* MedicalQASystem(mode=mode, enable_rag=enable_rag); no thread holds the
\* object before the constructor has returned
Construct ==
    /\ ~qa.built
    /\ qa_ops < MaxOps
    /\ \E mode \in ModeNames, enable_rag \in BOOLEAN, rc \in RetrieverOutcomes :
         LET d == MedicalQASystem_init(mode, enable_rag, rc, qa_ops + 1)
         IN  /\ qa' = d.sys
             /\ qa_out' = Called(Begun("init", <<mode, enable_rag>>), d)
    /\ qa_ops' = qa_ops + 1
    /\ UNCHANGED qa_run
    /\ UNCHANGED <<agent_vars, registry_vars, bench_vars>>

\* a thread calls qa.switch_mode(new_mode, enable_rag).  The step is what
\* the thread does until another thread runs: the call to its return, or
\* the call up to the constructor it waits in
SwitchMode ==
    /\ qa.built
    /\ qa_ops < MaxOps
    /\ ThreadFree
    /\ \E new_mode \in ModeNames, enable_rag \in BOOLEAN :
         /\ LET call == Begun("switch_mode", <<new_mode, enable_rag>>)
            IN  \/ \E rc \in RetrieverDrawn(RunsRetriever(qa, new_mode, enable_rag)) :
                     LET d == switch_mode(qa, new_mode, enable_rag, rc, call.id)
                     IN  /\ qa' = d.sys
                         /\ qa_out' = Called(call, d)
                         /\ qa_run' = Waits(call, call, FALSE)
                \/ /\ switch_mode_waits(qa, new_mode, enable_rag)
                   /\ qa' = switch_mode_begun(qa, new_mode, enable_rag)
                   /\ qa_out' = NoOutcome
                   /\ qa_run' = Waits(call, [call EXCEPT !.pc = "constructor",
                                                       !.seen = qa], TRUE)
    /\ qa_ops' = qa_ops + 1
    /\ UNCHANGED <<agent_vars, registry_vars, bench_vars>>

\* the constructor a switch_mode call waited in returns or raises, and the
\* call runs to its return
SwitchModeResumed ==
    /\ \E call \in qa_run :
         /\ call.op = "switch_mode"
         /\ \E rc \in RetrieverDrawn(RunsRetriever(call.seen, call.args[1], call.args[2])) :
            LET d == switch_mode_resumed(qa, call.args[1], call.args[2], rc, call.id)
            IN  /\ qa' = d.sys
                /\ qa_out' = Called(call, d)
                /\ qa_run' = Waits(call, call, FALSE)
    /\ UNCHANGED qa_ops
    /\ UNCHANGED <<agent_vars, registry_vars, bench_vars>>

\* a thread calls qa.toggle_rag_mode(enable_rag): the call to its return, or
\* up to the constructor it waits in
ToggleRag ==
    /\ qa.built
    /\ qa_ops < MaxOps
    /\ ThreadFree
    /\ \E enable_rag \in ToggleArgs :
         /\ LET call == Begun("toggle_rag_mode", <<enable_rag>>)
            IN  \/ \E rc \in RetrieverDrawn(toggle_rag_mode_waits(qa, enable_rag)) :
                     LET d == toggle_rag_mode(qa, enable_rag, rc)
                     IN  /\ qa' = d.sys
                         /\ qa_out' = Called(call, d)
                         /\ qa_run' = Waits(call, call, FALSE)
                \/ /\ toggle_rag_mode_waits(qa, enable_rag)
                   /\ qa' = toggle_rag_mode_begun(qa, enable_rag)
                   /\ qa_out' = NoOutcome
                   /\ qa_run' = Waits(call, [call EXCEPT !.pc = "constructor"], TRUE)
    /\ qa_ops' = qa_ops + 1
    /\ UNCHANGED <<agent_vars, registry_vars, bench_vars>>

\* the constructor a toggle_rag_mode call waited in returns or raises, and
\* the call runs to its return
ToggleRagResumed ==
    /\ \E call \in qa_run, rc \in RetrieverOutcomes :
         /\ call.op = "toggle_rag_mode"
         /\ LET d == toggle_rag_mode_resumed(qa, rc)
            IN  /\ qa' = d.sys
                /\ qa_out' = Called(call, d)
                /\ qa_run' = Waits(call, call, FALSE)
    /\ UNCHANGED qa_ops
    /\ UNCHANGED <<agent_vars, registry_vars, bench_vars>>

\* the answer_question call returned and did `d`
AnswerCalled(call, d) ==
    [Called(call, Done(d.sys, d.raised, {})) EXCEPT
        !.envelope = d.envelope, !.backend_calls = d.backend_calls,
        !.loop_entered = d.loop_entered, !.executed = d.executed,
        !.index_queried = d.index_queried,
        !.agent_result = d.agent_result, !.episode_exit = d.episode_exit,
        !.episode_iteration = d.episode_iteration,
        !.retrieved = d.retrieved, !.backend_raised = d.backend_raised]

\* where answer_question waits first: in agent.chat; in the search, when
\* retrieve_context queries the index; else in the backend call of
\* generate_answer.  With no agent object the call of chat raises at once
FirstWait(sys) ==
    IF sys.mode = "agent" THEN (IF sys.agent.id = 0 THEN "" ELSE "chat")
    ELSE IF retrieve_context(sys, IdleIndex, DefaultK).queried THEN "search"
    ELSE "generate"

\* a thread calls qa.answer_question(question, show_context=show_context):
\* the call to its return, or up to its first wait.  The backend's script is
\* drawn in agent mode, the index's and the backend's outcome of the one
\* call in the other modes (the path taken consults nothing else)
AnswerQuestion ==
    /\ qa.built
    /\ qa_ops < MaxOps
    /\ ThreadFree
    /\ \E question \in QAQuestions, show_context \in BOOLEAN :
         /\ LET call == Begun("answer_question", <<question, show_context>>)
            IN  \/ IF qa.mode = "agent"
                   THEN \E script \in QAScripts :
                          LET d == answer_question(qa, question, show_context,
                                                   IdleIndex, IdleBackend, script)
                          IN  /\ qa' = d.sys
                              /\ qa_out' = AnswerCalled(call, d)
                              /\ qa_run' = Waits(call, call, FALSE)
                   ELSE \E index \in IndexOutcomes, backend \in GenerateOutcomes :
                          LET d == answer_question(qa, question, show_context,
                                                   index, backend, IdleScript)
                          IN  /\ qa' = d.sys
                              /\ qa_out' = AnswerCalled(call, d)
                              /\ qa_run' = Waits(call, call, FALSE)
                \/ /\ FirstWait(qa) # ""
                   /\ qa' = qa
                   /\ qa_out' = NoOutcome
                   /\ qa_run' = Waits(call, [call EXCEPT
                                            !.pc = FirstWait(qa), !.seen = qa,
                                            !.rc = retrieve_context(qa, IdleIndex, DefaultK)],
                                      TRUE)
    /\ qa_ops' = qa_ops + 1
    /\ UNCHANGED <<agent_vars, registry_vars, bench_vars>>

\* agent.chat returns to an answer_question call that waited in it: the
\* episode ran on the agent the call took from self.agent, the history is
\* appended to that agent, and the except branch builds the envelope from
\* the object as it is now
ChatReturned ==
    /\ \E call \in qa_run, script \in QAScripts :
         /\ call.op = "answer_question"
         /\ call.pc = "chat"
         /\ LET kept == qa.agent.id = call.seen.agent.id
                d == answer_with_agent(
                         [qa EXCEPT !.agent = IF kept THEN qa.agent ELSE call.seen.agent],
                         call.args[1], script)
            IN  /\ qa' = IF kept THEN d.sys ELSE qa
                /\ qa_out' = AnswerCalled(call, d)
                /\ qa_run' = Waits(call, call, FALSE)
    /\ UNCHANGED qa_ops
    /\ UNCHANGED <<agent_vars, registry_vars, bench_vars>>

\* the search returns to an answer_question call that waited for it.  The
\* call tested self.retriever before the wait; it read self.retriever for
\* the search before another thread ran, or after (late): then it searches
\* the retriever held now, and raises when none is held.  generate_answer
\* reads the object as it is now; the call goes on to its return, or waits
\* in the backend call
SearchReturned ==
    /\ \E call \in qa_run, index \in IndexOutcomes, late \in BOOLEAN :
         /\ call.op = "answer_question"
         /\ call.pc = "search"
         /\ late => qa.retriever # call.seen.retriever
         /\ LET read == IF late THEN [call.seen EXCEPT !.retriever = qa.retriever]
                        ELSE call.seen
            IN  IF read.retriever = "None"
                THEN /\ qa_out' = AnswerCalled(call, SearchOnNone(qa))
                     /\ qa_run' = Waits(call, call, FALSE)
                ELSE LET rc == retrieve_context(read, index, DefaultK)
                     IN  \/ \E backend \in GenerateOutcomes :
                              /\ qa_out' = AnswerCalled(call,
                                     rag_or_llm_returned(rc, qa, qa, call.args[1],
                                                         call.args[2], backend))
                              /\ qa_run' = Waits(call, call, FALSE)
                         \/ /\ qa_out' = NoOutcome
                            /\ qa_run' = Waits(call, [call EXCEPT !.pc = "generate",
                                                                !.seen = qa, !.rc = rc],
                                               TRUE)
    /\ UNCHANGED <<qa, qa_ops>>
    /\ UNCHANGED <<agent_vars, registry_vars, bench_vars>>

\* the backend call of generate_answer returns or raises to an
\* answer_question call that waited in it; the envelope is built from the
\* object as it is now
BackendReturned ==
    /\ \E call \in qa_run, backend \in GenerateOutcomes :
         /\ call.op = "answer_question"
         /\ call.pc = "generate"
         /\ qa_out' = AnswerCalled(call,
                          rag_or_llm_returned(call.rc, call.seen, qa, call.args[1],
                                              call.args[2], backend))
         /\ qa_run' = Waits(call, call, FALSE)
    /\ UNCHANGED <<qa, qa_ops>>
    /\ UNCHANGED <<agent_vars, registry_vars, bench_vars>>

NextQA ==
    \/ Construct \/ SwitchMode \/ ToggleRag \/ AnswerQuestion
    \/ SwitchModeResumed \/ ToggleRagResumed
    \/ ChatReturned \/ SearchReturned \/ BackendReturned

SpecQA == InitQA /\ [][NextQA]_vars

(***************************************************************************)
(* Retrieval on its own: similarity_search and retrieve_context applied    *)
(* to a drawn retriever, index, k and max_context_length.                  *)
(***************************************************************************)
\* the largest k asked for and the most documents the index holds
MaxK == 3
MaxDocs == 3

Docs == {DocA, DocB, DocC, DocD}

\* the lists of at most n different documents
RECURSIVE DocLists(_)
DocLists(n) ==
    IF n = 0 THEN {<<>>}
    ELSE DocLists(n - 1)
         \cup { Append(l, d) : l \in {m \in DocLists(n - 1) : Len(m) = n - 1},
                               d \in Docs }
Distinct(l) == \A i, j \in 1..Len(l) : l[i] = l[j] => i = j

Indexes ==
    { Index(TRUE, <<DocA>>) }
    \cup { Index(FALSE, l) : l \in {m \in DocLists(MaxDocs) : Distinct(m)} }

\* the values of max_context_length tried
ContextLengths == {0, 5, 9, DefaultMaxContextLength}

\* the controller whose retrieve_context is called
LookupSystem ==
    [NoSystem EXCEPT !.built = TRUE, !.mode = IF lookup.enable_rag THEN "rag" ELSE "llm",
                     !.enable_rag = lookup.enable_rag,
                     !.retriever = lookup.retriever,
                     !.max_context_length = lookup.max_context_length]

InitRetrieval ==
    /\ max_iterations = 0
    /\ conversation_history = <<>>
    /\ ep = IdleEpisode
    /\ caller = "direct"
    /\ chats = 0
    /\ answers = 0
    /\ tools = NewRegistry
    /\ reg_log = DefaultRegistrations
    /\ reg_out = NoOutput
    /\ qa = NoSystem
    /\ qa_out = NoOutcome
    /\ qa_ops = 0
    /\ qa_run = NoCalls
    /\ tool_run = NoToolRun
    /\ assessment = NoAssessment
    /\ evaluation = NoEvaluation
    /\ episodes = NoEpisodes
    /\ deployment = NoDeployment
    /\ \E enable_rag \in BOOLEAN, retriever \in {"None", "loaded", "unloaded"},
          index \in Indexes, k \in 1..MaxK, max_context_length \in ContextLengths :
         lookup = [NoLookup EXCEPT !.enable_rag = enable_rag,
                                   !.retriever = retriever, !.index = index,
                                   !.k = k,
                                   !.max_context_length = max_context_length]

\* retriever.similarity_search(query, k)
SimilaritySearch ==
    /\ lookup.retriever # "None"
    /\ ~lookup.search.done
    /\ LET r == similarity_search(lookup.retriever, lookup.index, lookup.k,
                                  DefaultScoreThreshold)
       IN  lookup' = [lookup EXCEPT !.search =
                         [done |-> TRUE, raised |-> r.raised, results |-> r.results]]
    /\ UNCHANGED <<agent_vars, registry_vars, qa_vars, tool_run, assessment,
                   evaluation, episodes, deployment>>

\* qa.retrieve_context(question, k)
RetrieveContext ==
    /\ ~lookup.rc.done
    /\ LET r == retrieve_context(LookupSystem, lookup.index, lookup.k)
       IN  lookup' = [lookup EXCEPT !.rc =
                         [done |-> TRUE, context |-> r.context,
                          search_results |-> r.search_results,
                          queried |-> r.queried]]
    /\ UNCHANGED <<agent_vars, registry_vars, qa_vars, tool_run, assessment,
                   evaluation, episodes, deployment>>

NextRetrieval == SimilaritySearch \/ RetrieveContext

SpecRetrieval == InitRetrieval /\ [][NextRetrieval]_vars

(***************************************************************************)
(* The tools on their own: execute_tool called on the registry of the      *)
(* process, with its hash seed, over the vector store at the default path, *)
(* which can be written or lost between two calls.                         *)
(***************************************************************************)
\* execute_tool calls made in a run
MaxRuns == 2

\* the calls made: tool name and keywords
ToolCalls ==
    { <<"medical_knowledge_search", [query |-> "q"]>>,
      <<"symptom_analysis", [symptoms |-> <<Cough, NightCough>>]>>,
      <<"symptom_analysis",
        [symptoms |-> <<SevereHeadache>>,
         patient_info |-> [age |-> 40, medical_history |-> <<"gaoxueya", "tangniaobing">>]]>>,
      <<"drug_information", [drug_name |-> Aspirin]>>,
      <<"drug_information", [drug_name |-> <<" ">> \o Aspirin \o <<" ">>]>>,
      <<"drug_information", [dose |-> "q"]>>,
      <<"health_advice",
        [condition |-> "ganmao", lifestyle_factors |-> <<"smoking", "late nights">>]>>,
      <<"emergency_assessment", [symptoms |-> <<SevereHeadache>>, severity |-> "mild"]>>,
      <<"emergency_assessment", [symptoms |-> <<NightSweat>>]>>,
      <<"department_recommendation", [symptoms |-> <<SuddenChestPain, Cough>>]>>,
      <<"department_recommendation",
        [symptoms |-> <<NightSweat>>, suspected_condition |-> <<"tou", "tong">>]>>,
      <<"no_such_tool", [query |-> "q"]>> }

\* Chroma.from_documents(documents, embedding, persist_directory) and
\* persist(): the index at the directory afterwards; the documents are added
\* to those the collection at the directory holds
create_vector_store(store, documents) ==
    [retriever |-> "loaded",
     index |-> Index(store.index.raises, store.index.docs \o documents)]

\* the split documents a build writes
SplitDocs == {<<DocA>>, <<DocA, DocB>>}

\* the split documents of a build made between two calls of a tool
BuiltDocs == {<<DocA>>}

\* the vector store MedicalRAGRetriever() finds
Stores ==
    { [retriever |-> "raise", index |-> Index(FALSE, <<>>)],
      [retriever |-> "unloaded", index |-> Index(FALSE, <<>>)],
      [retriever |-> "loaded", index |-> Index(TRUE, <<>>)],
      [retriever |-> "loaded", index |-> Index(FALSE, <<DocA, DocB>>)] }

InitTools ==
    /\ max_iterations = 0
    /\ conversation_history = <<>>
    /\ ep = IdleEpisode
    /\ caller = "direct"
    /\ chats = 0
    /\ answers = 0
    /\ tools = NewRegistry
    /\ reg_log = DefaultRegistrations
    /\ reg_out = NoOutput
    /\ qa = NoSystem
    /\ qa_out = NoOutcome
    /\ qa_ops = 0
    /\ qa_run = NoCalls
    /\ lookup = NoLookup
    /\ assessment = NoAssessment
    /\ evaluation = NoEvaluation
    /\ episodes = NoEpisodes
    /\ deployment = NoDeployment
    /\ \E store \in Stores :
         tool_run = [NoToolRun EXCEPT !.env.store = store]

\* the index the handler opens: medical_knowledge_search constructs
\* MedicalRAGRetriever() over the default path, the other handlers open none
StoreOpened(function, store) ==
    IF function = "medical_knowledge_search" THEN store ELSE NoRetriever

\* tool_registry.execute_tool(tool_name, **kwargs)
ExecuteRegistered ==
    /\ Len(tool_run.calls) < MaxRuns
    /\ \E call \in ToolCalls :
         \E seed \in SeedsShowing(tool_run.env.seed,
                                  SetBuilt(FunctionOf(tools, call[1]), call[2])) :
            LET env == [store |-> tool_run.env.store, seed |-> seed]
                r == execute_registered(tools, env, call[1], call[2])
            IN  /\ tools' = r.tools
                /\ tool_run' = [tool_run EXCEPT
                                  !.env = env,
                                  !.calls =
                                     Append(@, [name |-> call[1], kwargs |-> call[2],
                                                store |-> StoreOpened(
                                                    FunctionOf(tools, call[1]),
                                                    env.store),
                                                text |-> r.text])]
    /\ UNCHANGED <<agent_vars, reg_log, reg_out, qa_vars, lookup, assessment,
                   evaluation, episodes, deployment>>

\* the documents the store the tools open holds at most
MaxStored == 4

\* MedicalKnowledgeBuilder.create_vector_store(documents), between two calls
\* of a tool: Chroma.from_documents adds the documents to the index at the
\* default path; the builder is not constructed when the embedding model
\* cannot be loaded
CreateVectorStore ==
    /\ tool_run.env.store.retriever # "raise"
    /\ \E documents \in BuiltDocs :
         LET written == create_vector_store(tool_run.env.store, documents)
         IN  /\ Len(written.index.docs) <= MaxStored
             /\ tool_run' = [tool_run EXCEPT !.env.store = written]
    /\ UNCHANGED <<agent_vars, registry_vars, qa_vars, lookup, assessment,
                   evaluation, episodes, deployment>>

\* between two calls of a tool the directory at the default path is removed,
\* or the embedding model can no longer be loaded
StoreLost ==
    /\ \E store \in Stores :
         /\ store.retriever # "loaded"
         /\ store # tool_run.env.store
         /\ tool_run' = [tool_run EXCEPT !.env.store = store]
    /\ UNCHANGED <<agent_vars, registry_vars, qa_vars, lookup, assessment,
                   evaluation, episodes, deployment>>

NextTools == ExecuteRegistered \/ CreateVectorStore \/ StoreLost

SpecTools == InitTools /\ [][NextTools]_vars

(***************************************************************************)
(* emergency_assessment on its own, applied to drawn symptoms and          *)
(* severity.                                                               *)
(***************************************************************************)
\* the most symptoms in a list
MaxSymptoms == 2

RECURSIVE SymptomLists(_)
SymptomLists(n) ==
    IF n = 0 THEN {<<>>}
    ELSE SymptomLists(n - 1)
         \cup { Append(l, s) : l \in {m \in SymptomLists(n - 1) : Len(m) = n - 1},
                               s \in Symptoms }

Severities == {"mild", "moderate", "severe", "unknown"}

AssessmentCalls ==
    { [symptoms |-> l] : l \in SymptomLists(MaxSymptoms) }
    \cup { [symptoms |-> l, severity |-> s] :
             l \in SymptomLists(MaxSymptoms), s \in Severities }

InitAssessment ==
    /\ max_iterations = 0
    /\ conversation_history = <<>>
    /\ ep = IdleEpisode
    /\ caller = "direct"
    /\ chats = 0
    /\ answers = 0
    /\ tools = NewRegistry
    /\ reg_log = DefaultRegistrations
    /\ reg_out = NoOutput
    /\ qa = NoSystem
    /\ qa_out = NoOutcome
    /\ qa_ops = 0
    /\ qa_run = NoCalls
    /\ lookup = NoLookup
    /\ tool_run = NoToolRun
    /\ \E kwargs \in AssessmentCalls :
         assessment = [NoAssessment EXCEPT !.kwargs = kwargs]
    /\ evaluation = NoEvaluation
    /\ episodes = NoEpisodes
    /\ deployment = NoDeployment

\* tool_registry.execute_tool("emergency_assessment", **kwargs)
Assess ==
    /\ ~assessment.done
    /\ LET r == execute_registered(tools, tool_run.env, "emergency_assessment",
                                   assessment.kwargs)
       IN  /\ tools' = r.tools
           /\ assessment' = [assessment EXCEPT !.done = TRUE, !.text = r.text]
    /\ UNCHANGED <<agent_vars, reg_log, reg_out, qa_vars, lookup, tool_run,
                   evaluation, episodes, deployment>>

NextAssessment == Assess

SpecAssessment == InitAssessment /\ [][NextAssessment]_vars

(***************************************************************************)
(* The coverage score on its own, applied to a drawn question, answer and  *)
(* list of retrieved passages.                                             *)
(***************************************************************************)
\* the most characters in a question or an answer
MaxText == 3

Characters == {"a", "A", "b", " "}

RECURSIVE TextsUpTo(_)
TextsUpTo(n) ==
    IF n = 0 THEN {<<>>}
    ELSE LET shorter == TextsUpTo(n - 1)
         IN  shorter \cup {Append(t, c) : t \in shorter, c \in Characters}

\* what similarity_search found for the question: nothing, or one passage
PassageLists ==
    {similarity_search("loaded", Index(FALSE, docs), DefaultK,
                       DefaultScoreThreshold).results : docs \in {<<>>, <<DocA>>}}

InitQuality ==
    /\ max_iterations = DefaultMaxIterations
    /\ conversation_history = <<>>
    /\ ep = IdleEpisode
    /\ caller = "direct"
    /\ chats = 0
    /\ answers = 0
    /\ tools = NewRegistry
    /\ reg_log = DefaultRegistrations
    /\ reg_out = NoOutput
    /\ qa = NoSystem
    /\ qa_out = NoOutcome
    /\ qa_ops = 0
    /\ qa_run = NoCalls
    /\ lookup = NoLookup
    /\ tool_run = NoToolRun
    /\ assessment = NoAssessment
    /\ \E question \in TextsUpTo(MaxText), answer \in TextsUpTo(MaxText),
          search_results \in PassageLists :
         evaluation = [NoEvaluation EXCEPT !.question = question,
                                           !.answer = answer,
                                           !.search_results = search_results]
    /\ episodes = NoEpisodes
    /\ deployment = NoDeployment

\* self._calculate_coverage_score(question, answer, search_results)
CalculateCoverage ==
    /\ ~evaluation.done
    /\ evaluation' =
         [evaluation EXCEPT !.done = TRUE,
                            !.score = calculate_coverage_score(
                                          evaluation.question, evaluation.answer,
                                          evaluation.search_results)]
    /\ UNCHANGED <<agent_vars, registry_vars, qa_vars, lookup, tool_run,
                   assessment, episodes, deployment>>

NextQuality == CalculateCoverage

SpecQuality == InitQuality /\ [][NextQuality]_vars

(***************************************************************************)
(* Two questions asked of one agent at once: the calls take their steps    *)
(* in any order, a step being a backend invocation or a tool execution.    *)
(***************************************************************************)
InitParallel ==
    /\ max_iterations = MaxIter
    /\ conversation_history = <<>>
    /\ ep = IdleEpisode
    /\ caller = "direct"
    /\ chats = 0
    /\ answers = 0
    /\ tools = NewRegistry
    /\ reg_log = DefaultRegistrations
    /\ reg_out = NoOutput
    /\ qa = NoSystem
    /\ qa_out = NoOutcome
    /\ qa_ops = 0
    /\ qa_run = NoCalls
    /\ lookup = NoLookup
    /\ tool_run = NoToolRun
    /\ assessment = NoAssessment
    /\ evaluation = NoEvaluation
    /\ \E s1 \in Scripts, s2 \in Scripts :
         episodes = <<Waiting("q1", s1), Waiting("q2", s2)>>
    /\ deployment = NoDeployment

\* agent.process_query(user_query) is called
ProcessQuery ==
    \E i \in DOMAIN episodes :
        /\ episodes[i].e.pc = "idle"
        /\ episodes' = Stepped(episodes, i, Started(episodes[i], i, max_iterations),
                               episodes[i].rest)
        /\ UNCHANGED <<agent_vars, registry_vars, qa_vars, solo_vars>>

\* the backend invocation of a call returns or raises
ParallelBackend ==
    \E i \in DOMAIN episodes :
        LET call == episodes[i]
            step == call.rest[1]
            rest == IF Len(call.rest) > 1 THEN Tail(call.rest) ELSE call.rest
            e1 == IF step.kind = "fail"
                  THEN Failed(call.e, max_iterations, step.content)
                  ELSE Replied(call.e, ReplyOf(step, call.e))
        IN  /\ call.e.pc = "think"
            /\ episodes' = Stepped(episodes, i, e1, rest)
            /\ conversation_history' =
                 IF e1.exit = "final"
                 THEN Append(conversation_history, HistoryEntry(e1))
                 ELSE conversation_history
            /\ UNCHANGED <<max_iterations, ep, caller, chats, answers>>
            /\ UNCHANGED <<registry_vars, qa_vars, solo_vars>>

\* a call executes the next tool call of its reply
ParallelTool ==
    \E i \in DOMAIN episodes :
        /\ episodes[i].e.pc = "act"
        /\ episodes' = Stepped(episodes, i, ToolStep(episodes[i].e, max_iterations),
                               episodes[i].rest)
        /\ UNCHANGED <<agent_vars, registry_vars, qa_vars, solo_vars>>

NextParallel == ProcessQuery \/ ParallelBackend \/ ParallelTool

SpecParallel == InitParallel /\ [][NextParallel]_vars

(***************************************************************************)
(* An agent configured with a vector store path: the knowledge search      *)
(* tool is executed for it, and its own retriever is asked for context.    *)
(***************************************************************************)
VectorStorePaths == {DefaultVectorStorePath, "./kb"}

\* what may be at a path: a store the retriever cannot be constructed over,
\* nothing, an index without a passage for the question, an index with
\* passages
StoresOnDisk ==
    { [retriever |-> "raise", index |-> Index(FALSE, <<>>)],
      [retriever |-> "unloaded", index |-> Index(FALSE, <<>>)],
      [retriever |-> "loaded", index |-> Index(FALSE, <<>>)],
      [retriever |-> "loaded", index |-> Index(FALSE, <<DocA>>)],
      [retriever |-> "loaded", index |-> Index(FALSE, <<DocB, DocA>>)] }

\* the top_k the backend or the caller asks for; <<>>: left out
TopKs == {<<>>} \cup {<<k>> : k \in 1..(MaxK - 1)}

InitStores ==
    /\ max_iterations = 0
    /\ conversation_history = <<>>
    /\ ep = IdleEpisode
    /\ caller = "direct"
    /\ chats = 0
    /\ answers = 0
    /\ tools = NewRegistry
    /\ reg_log = DefaultRegistrations
    /\ reg_out = NoOutput
    /\ qa = NoSystem
    /\ qa_out = NoOutcome
    /\ qa_ops = 0
    /\ qa_run = NoCalls
    /\ lookup = NoLookup
    /\ tool_run = NoToolRun
    /\ assessment = NoAssessment
    /\ evaluation = NoEvaluation
    /\ episodes = NoEpisodes
    /\ \E disk \in [VectorStorePaths -> StoresOnDisk],
          vector_store_path \in VectorStorePaths, enable_rag \in BOOLEAN :
         deployment = [NoDeployment EXCEPT
                          !.disk = disk,
                          !.agent = AgentOver(disk, vector_store_path, enable_rag)]

\* in an episode of the agent:
\* tool_registry.execute_tool("medical_knowledge_search", **tool_args)
KnowledgeSearch ==
    /\ Len(deployment.searches) < MaxRuns
    /\ \E top_k \in TopKs :
         LET kwargs == IF top_k = <<>> THEN [query |-> "q1"]
                       ELSE [query |-> "q1", top_k |-> top_k[1]]
             r == execute_registered(tools,
                                     [store |-> ToolStore(deployment.disk),
                                      seed |-> deployment.seed],
                                     "medical_knowledge_search", kwargs)
         IN  /\ tools' = r.tools
             /\ deployment' =
                  [deployment EXCEPT !.searches =
                      Append(@, [by |-> "tool", kwargs |-> kwargs,
                                 disk |-> deployment.disk, text |-> r.text])]
    /\ UNCHANGED <<agent_vars, reg_log, reg_out, qa_vars, lookup, tool_run,
                   assessment, evaluation, episodes>>

\* agent.get_rag_context(query, top_k)
GetRagContext ==
    /\ Len(deployment.searches) < MaxRuns
    /\ \E top_k \in TopKs :
         LET kwargs == IF top_k = <<>> THEN [query |-> "q1"]
                       ELSE [query |-> "q1", top_k |-> top_k[1]]
         IN  deployment' =
               [deployment EXCEPT !.searches =
                   Append(@, [by |-> "agent", kwargs |-> kwargs,
                              disk |-> deployment.disk,
                              text |-> get_rag_context(deployment.agent, "q1",
                                                       Arg(kwargs, "top_k", DefaultTopK))])]
    /\ UNCHANGED <<agent_vars, registry_vars, qa_vars, lookup, tool_run,
                   assessment, evaluation, episodes>>

\* MedicalKnowledgeBuilder(vector_store_path=path).build_knowledge_base(),
\* between two searches: the documents are loaded and split, and
\* create_vector_store writes them at the path.  The builder is not
\* constructed when the embedding model cannot be loaded.  A retriever the
\* agent opened over the directory before the build answers from what it
\* loaded or from what is there now.
BuildKnowledgeBase ==
    /\ \E path \in VectorStorePaths, documents \in SplitDocs, seen \in BOOLEAN :
         LET written == create_vector_store(deployment.disk[path], documents)
         IN  /\ deployment.disk[path].retriever # "raise"
             /\ Len(written.index.docs) <= MaxDocs
             /\ deployment' =
                  [deployment EXCEPT
                      !.disk[path] = written,
                      !.agent.rag_retriever =
                          IF /\ seen
                             /\ deployment.agent.vector_store_path = path
                             /\ @.retriever = "loaded"
                          THEN written ELSE @]
    /\ UNCHANGED <<agent_vars, registry_vars, qa_vars, lookup, tool_run,
                   assessment, evaluation, episodes>>

NextStores == KnowledgeSearch \/ GetRagContext \/ BuildKnowledgeBase

SpecStores == InitStores /\ [][NextStores]_vars

(***************************************************************************)
(* Vocabulary of the properties.                                           *)
(***************************************************************************)
IsPrefix(s, t) == Len(s) <= Len(t) /\ SubSeq(t, 1, Len(s)) = s

Running(e) == e.pc \in {"think", "act"}

\* the tool-call ids the assistant messages of msgs carry
ToolCallIds(msgs) ==
    UNION { { msgs[i].tool_calls[j].id : j \in DOMAIN msgs[i].tool_calls }
            : i \in { k \in DOMAIN msgs : msgs[k].role = "assistant" } }

\* the positions of the tool-result messages of msgs keyed by id
ResultsFor(msgs, id) ==
    { i \in DOMAIN msgs : msgs[i].role = "tool" /\ msgs[i].tool_call_id = id }

\* every requested call has exactly one result
AllAnswered(msgs) ==
    \A id \in ToolCallIds(msgs) : Cardinality(ResultsFor(msgs, id)) = 1

\* the assistant messages of msgs that request tool calls
ToolReplies(msgs) ==
    { i \in DOMAIN msgs : msgs[i].role = "assistant" /\ msgs[i].tool_calls # <<>> }

(***************************************************************************)
(* C1.  Every tool-call id carried by an assistant message has exactly one *)
(* tool-result message with that id before the next backend invocation:    *)
(* every message list the backend is invoked with answers every call.      *)
(* The code does not keep this: an argument payload that json.loads        *)
(* rejects, or that is not an object, ends the iteration with the call     *)
(* and the calls after it unanswered, and the next iteration invokes the   *)
(* backend.                                                                *)
(***************************************************************************)
C1_CallsAnsweredBeforeNextInvocation ==
    \A k \in DOMAIN ep.sent : AllAnswered(ep.sent[k])

(***************************************************************************)
(* C2.  Whenever process_query has returned, the conversation holds no     *)
(* assistant tool call without its tool-result message.  The code does not *)
(* keep this on the return taken when the final iteration fails while its  *)
(* tool calls are being processed.                                         *)
(***************************************************************************)
C2_NoUnansweredCallAtReturn ==
    ep.pc = "returned" => AllAnswered(ep.messages)

(***************************************************************************)
(* C3.  process_query always terminates and returns a text after at most   *)
(* max_iterations backend invocations, and never invokes the backend after *)
(* a reply that carries no tool calls.  Stated on every step: a running    *)
(* call can always take a step; every step of it moves forward in the      *)
(* order (iteration, position inside the iteration), which is bounded by   *)
(* max_iterations and the length of the reply's tool calls; the backend is *)
(* never invoked more than max_iterations times; a reply without tool      *)
(* calls is the last message of a call that has returned; what is returned *)
(* is a non-empty text.                                                    *)
(***************************************************************************)
\* the step e -> f moves forward: returns, or a later iteration, or within
\* the iteration from the backend call to the tool loop, or on in the tool loop
MovesForward(e, f) ==
    \/ f.pc = "returned"
    \/ Running(f) /\ f.iteration > e.iteration
    \/ f.iteration = e.iteration /\ e.pc = "think" /\ f.pc = "act"
    \/ f.iteration = e.iteration /\ e.pc = "act" /\ f.pc = "act" /\ f.idx > e.idx

WithinBudget(e) ==
    /\ Len(e.sent) <= max_iterations
    /\ Running(e) => e.iteration < max_iterations
    /\ e.pc = "act" => e.idx \in 1..Len(e.tool_calls)
    /\ \A i \in DOMAIN e.messages :
         (e.messages[i].role = "assistant" /\ e.messages[i].tool_calls = <<>>)
            => (i = Len(e.messages) /\ e.pc = "returned")
    /\ e.pc = "returned" => e.result # ""

\* a running call is never stuck
CanStep == ENABLED (BackendReply \/ BackendFail \/ ExecuteTool)

C3_Terminates ==
    /\ [](WithinBudget(ep) /\ (Running(ep) => CanStep))
    /\ [][Running(ep) => MovesForward(ep, ep')]_vars

C3_Witness ==
    /\ ep.pc = "returned" /\ ep.exit = "budget"
    /\ max_iterations = MaxIter /\ Len(ep.sent) = max_iterations
    /\ ep.caught # <<>> /\ ep.executed # <<>>

(***************************************************************************)
(* C4.  A failure during an iteration that is not the final allotted one   *)
(* is not fatal: the loop proceeds to the next iteration.  A failure       *)
(* during the final allotted iteration makes process_query return the      *)
(* error text that carries the failure's message, which is not the         *)
(* budget-exhausted text.  Stated on every step on which the except clause *)
(* catches an exception.                                                   *)
(***************************************************************************)
C4_FailureHandling ==
    [][ (Running(ep) /\ Len(ep'.caught) = Len(ep.caught) + 1) =>
          LET f == ep'.caught[Len(ep'.caught)]
          IN  /\ f.iteration = ep.iteration
              /\ IF ep.iteration + 1 < max_iterations
                 THEN /\ ep'.pc = "think"
                      /\ ep'.iteration = ep.iteration + 1
                 ELSE /\ ep'.pc = "returned"
                      /\ ep'.exit = "error"
                      /\ ep'.result = "SORRY_ERROR: " \o f.message \o ". PLEASE_REPHRASE"
                      /\ ep'.result # BudgetMessage ]_vars

C4_Witness ==
    /\ ep.pc = "returned" /\ ep.exit = "error"
    /\ Len(ep.caught) = 2
    /\ ep.caught[1].iteration = 0 /\ ep.caught[2].iteration = 1

(***************************************************************************)
(* C5.  If each of the max_iterations backend replies requests at least    *)
(* one tool call, process_query returns the fixed budget-exhausted text    *)
(* after exactly max_iterations backend invocations.  The code does not    *)
(* keep this when the final reply's tool calls cannot be processed: the    *)
(* exception is caught in the final iteration and the error text is        *)
(* returned.                                                               *)
(***************************************************************************)
C5_BudgetExhausted ==
    (ep.pc = "returned" /\ Cardinality(ToolReplies(ep.messages)) = max_iterations)
       => /\ ep.exit = "budget"
          /\ ep.result = BudgetMessage
          /\ Len(ep.sent) = max_iterations

(***************************************************************************)
(* C6.  When the first backend reply of an episode carries no tool calls,  *)
(* process_query returns that reply's content as the final answer, with no *)
(* tool executed and no tool-result message appended.  The number of       *)
(* backend invocations is one when the first invocation gave that reply,   *)
(* and in general one more than the number of invocations that failed      *)
(* before it.                                                              *)
(***************************************************************************)
\* the first reply (the third message: failures append nothing) has no tool call
FirstReplyIsFinal(e) ==
    /\ Len(e.messages) >= 3
    /\ e.messages[3].role = "assistant"
    /\ e.messages[3].tool_calls = <<>>

AnsweredWithoutTools(e) ==
    /\ e.pc = "returned"
    /\ e.exit = "final"
    /\ e.result = e.messages[3].content
    /\ e.executed = <<>>
    /\ Len(e.messages) = 3
    /\ \A i \in DOMAIN e.messages : e.messages[i].role # "tool"

C6_FirstReplyFinal ==
    FirstReplyIsFinal(ep) =>
        /\ AnsweredWithoutTools(ep)
        /\ Len(ep.sent) = 1 + Len(ep.caught)
        /\ ep.caught = <<>> => Len(ep.sent) = 1
        /\ \A k \in DOMAIN ep.caught : ep.caught[k].message \in BackendErrors

\* the claim as first stated: exactly one backend invocation
C6_Original ==
    FirstReplyIsFinal(ep) => (AnsweredWithoutTools(ep) /\ Len(ep.sent) = 1)

C6_Witness ==
    /\ FirstReplyIsFinal(ep)
    /\ ep.caught = <<>>
    /\ ep.result = "answer_b"
    /\ conversation_history # <<>>

(***************************************************************************)
(* C7.  Within one iteration the requested tool calls are executed one at  *)
(* a time in the order the reply lists them; the tool-result messages are  *)
(* appended in that order, each directly after its own tool's execution    *)
(* and keyed by the id of the call it answers; all of them precede the     *)
(* next backend invocation.                                                *)
(***************************************************************************)
\* the number of tool-result messages that directly follow position p
RunLen(msgs, p) ==
    Cardinality({ j \in 1..(Len(msgs) - p) :
                    \A k \in 1..j : msgs[p + k].role = "tool" })

IsToolMessage(m) == m.role = "tool"

\* the ids of the tool-result messages of msgs, in order
ResultIds(msgs) ==
    LET sel == SelectSeq(msgs, IsToolMessage)
    IN  [i \in 1..Len(sel) |-> sel[i].tool_call_id]

C7_ToolOrder ==
    /\ \A p \in ToolReplies(ep.messages) :
         LET tc == ep.messages[p].tool_calls
             n == RunLen(ep.messages, p)
         IN  /\ n <= Len(tc)
             /\ \A j \in 1..n :
                  /\ ep.messages[p + j].tool_call_id = tc[j].id
                  /\ ep.messages[p + j].content = execute_tool(tc[j].name, tc[j].arguments)
    /\ \A i \in DOMAIN ep.messages :
         ep.messages[i].role = "tool" =>
            /\ i > 1
            /\ \/ ep.messages[i - 1].role = "tool"
               \/ i - 1 \in ToolReplies(ep.messages)
    /\ ep.executed = ResultIds(ep.messages)
    /\ \A k \in DOMAIN ep.sent :
         /\ IsPrefix(ep.sent[k], ep.messages)
         /\ Len(ep.sent[k]) < Len(ep.messages)
               => ep.messages[Len(ep.sent[k]) + 1].role = "assistant"

C7_Witness ==
    /\ Len(ep.sent) = 2
    /\ Len(ep.executed) = 2
    /\ Len(ep.messages) >= 5
    /\ Len(ep.messages[3].tool_calls) = 2
    /\ ep.messages[4].role = "tool" /\ ep.messages[5].role = "tool"

(***************************************************************************)
(* C8.  Every conversation state of an episode extends the initial state   *)
(* [system message, user message]: the first backend invocation receives   *)
(* exactly those two messages, and afterwards messages are only appended.  *)
(***************************************************************************)
Seeded(e) ==
    e.pc # "idle" =>
        /\ Len(e.messages) >= 2
        /\ e.messages[1].role = "system" /\ e.messages[1].content = SystemPrompt
        /\ e.messages[2].role = "user" /\ e.messages[2].content = e.user_query
        /\ e.sent # <<>> => e.sent[1] = SubSeq(e.messages, 1, 2)

C8_AppendOnly ==
    /\ [](Seeded(ep))
    /\ [][Running(ep) => IsPrefix(ep.messages, ep'.messages)]_vars

C8_Witness ==
    /\ ep.pc = "returned"
    /\ Len(ep.messages) >= 5
    /\ Len(ep.sent) >= 2

(***************************************************************************)
(* C9.  MedicalAgent retains no conversation state between chat calls:     *)
(* between calls its stored state is what it was before them, and the      *)
(* backend is first invoked with the system prompt and the episode's own   *)
(* user input only.  The code does not keep the first part: a call that    *)
(* ends with a final answer appends a record of the exchange to            *)
(* self.conversation_history, which stays in the agent.                    *)
(***************************************************************************)
C9_NoRetainedState ==
    /\ ~Running(ep) => conversation_history = <<>>
    /\ ep.sent # <<>> => ep.sent[1] = <<SystemMessage, UserMessage(ep.user_query)>>

(***************************************************************************)
(* C10.  chat accepts a prior conversation state from the caller, and the  *)
(* multi-turn caller (interactive_qa in agent mode), which passes the      *)
(* history of the previous turn, obtains an answer for every turn.  The    *)
(* code does not keep this: chat takes the user input only, the call with  *)
(* a history raises TypeError, and no turn obtains an answer.              *)
(***************************************************************************)
C10_EveryTurnAnswered ==
    (caller = "interactive_qa" /\ ~Running(ep)) => answers = chats

(***************************************************************************)
(* C11.  A call of a name that is not in the registry, with any keyword    *)
(* arguments (an arguments text that decodes to an object), is observed:   *)
(* the 'tool not found' text is appended as the tool result of that call   *)
(* and nothing is raised, so the except clause catches nothing and the     *)
(* loop goes on.                                                           *)
(***************************************************************************)
C11_UnknownToolObserved ==
    [][ (ep.pc = "act" /\ ep' # ep) =>
          LET tc == ep.tool_calls[ep.idx]
          IN  (tc.name \notin RegisteredTools /\ json_loads(tc.arguments) = "dict") =>
                 /\ ep'.messages = Append(ep.messages,
                                          ToolMessage(ToolNotFound(tc.name), tc.id))
                 /\ ep'.caught = ep.caught
                 /\ ep'.exit # "error" ]_vars

(***************************************************************************)
(* C12.  A handler of a registered tool that raises for its arguments does *)
(* not abort the episode.                                                  *)
(***************************************************************************)
\* the observation execute_tool makes of a handler that raised: the fixed
\* wording, the tool's name and the message of the exception
HandlerFailureText(tool_name) ==
    "error executing tool '" \o tool_name \o "': " \o MissingArgError

\* the arguments of the call decode to keyword arguments execute_tool can
\* be called with
KeywordCallable(tc) ==
    json_loads(tc.arguments) = "dict" /\ ~BindingRaises(tc.arguments)

HandlerFails(tc) ==
    tc.name \in RegisteredTools /\ KeywordCallable(tc) /\ HandlerRaises(tc.name, tc.arguments)

\* the loop over the tool calls of the reply at position p is over
LoopOver(e, p) ==
    e.pc = "act" => \E p2 \in ToolReplies(e.messages) : p2 > p

\* C12: when the handler of a registered tool raises, the step does not reach
\* the except clause: the error text with the original message is appended
\* as the tool result of that call; if calls of the reply remain the loop is
\* at the next of them, otherwise the iteration ends and the backend is
\* invoked again (the episode returns the budget message when that was the
\* last iteration, never the error text). When all calls of a reply are
\* callable, every one of them has its result once the loop is over, the
\* failing ones included.
C12_HandlerFailureObserved ==
    /\ [](\A p \in ToolReplies(ep.messages) :
            LET tc == ep.messages[p].tool_calls
            IN  ( /\ \E j \in DOMAIN tc : HandlerFails(tc[j])
                  /\ \A j \in DOMAIN tc : KeywordCallable(tc[j])
                  /\ LoopOver(ep, p) )
                => /\ RunLen(ep.messages, p) = Len(tc)
                   /\ \A j \in DOMAIN tc :
                         /\ \E i \in DOMAIN ep.executed : ep.executed[i] = tc[j].id
                         /\ HandlerFails(tc[j]) =>
                               ep.messages[p + j] =
                                  ToolMessage(HandlerFailureText(tc[j].name), tc[j].id))
    /\ [][ (ep.pc = "act" /\ ep' # ep) =>
             LET tc == ep.tool_calls[ep.idx]
             IN  HandlerFails(tc) =>
                   /\ ep'.messages = Append(ep.messages,
                                            ToolMessage(HandlerFailureText(tc.name), tc.id))
                   /\ ep'.executed = Append(ep.executed, tc.id)
                   /\ ep'.caught = ep.caught
                   /\ ep'.exit # "error"
                   /\ IF ep.idx < Len(ep.tool_calls)
                      THEN /\ ep'.pc = "act"
                           /\ ep'.idx = ep.idx + 1
                           /\ ep'.tool_calls = ep.tool_calls
                           /\ ep'.iteration = ep.iteration
                      ELSE /\ ep'.iteration = ep.iteration + 1
                           /\ IF ep.iteration + 1 < max_iterations
                              THEN ep'.pc = "think"
                              ELSE ep'.pc = "returned" /\ ep'.exit = "budget" ]_vars

\* the first of two calls of a reply failed in its handler, the second was
\* executed after it, and the backend was invoked again with both results
C12_Witness ==
    /\ Len(ep.sent) = 2
    /\ Len(ep.sent[2]) = 5
    /\ Len(ep.sent[2][3].tool_calls) = 2
    /\ HandlerFails(ep.sent[2][3].tool_calls[1])
    /\ ~HandlerFails(ep.sent[2][3].tool_calls[2])
    /\ ep.sent[2][4] = ToolMessage(HandlerFailureText("drug_information"), 1)
    /\ ep.sent[2][5].role = "tool" /\ ep.sent[2][5].tool_call_id = 2
    /\ ep.caught = <<>>

(***************************************************************************)
(* C13.  register_tool with a name that is already present fails with      *)
(* DuplicateToolError and leaves the registry as it was; no entry of the   *)
(* registry is ever replaced.                                              *)
(***************************************************************************)
C13_NoSilentReplace ==
    [][ reg_log' # reg_log =>
          LET call == reg_log'[Len(reg_log')]
          IN  (\E i \in 1..Len(tools) : tools[i].name = call.name) =>
                 /\ tools' = tools
                 /\ reg_out'.raised = "DuplicateToolError" ]_vars

(***************************************************************************)
(* C14.  The schema after any sequence of register_tool calls.             *)
(***************************************************************************)
\* the names of the calls in the order they were first registered
RECURSIVE FirstRegistrationOrder(_)
FirstRegistrationOrder(log) ==
    IF log = <<>> THEN <<>>
    ELSE LET front == FirstRegistrationOrder(SubSeq(log, 1, Len(log) - 1))
             name == log[Len(log)].name
         IN  IF \E i \in 1..Len(front) : front[i] = name
             THEN front
             ELSE Append(front, name)

\* the last call that registered the name
CurrentRegistration(log, name) ==
    LET last == CHOOSE i \in 1..Len(log) :
                    /\ log[i].name = name
                    /\ \A j \in (i + 1)..Len(log) : log[j].name # name
    IN  log[last]

\* the six reference tools
ReferenceTools ==
    << "medical_knowledge_search", "symptom_analysis", "drug_information",
       "health_advice", "emergency_assessment", "department_recommendation" >>

SchemaNames(schema) == [i \in 1..Len(schema) |-> schema[i].function.name]

\* C14: get_tools_schema returns one descriptor per registered name, the names
\* unique and in first-registration order, each with the name, description
\* and parameters currently registered for that name; the registry as
\* constructed yields exactly the six reference tools.
C14_SchemaOfRegistry ==
    LET schema == get_tools_schema(tools)
    IN  /\ SchemaNames(schema) = FirstRegistrationOrder(reg_log)
        /\ \A i, j \in 1..Len(schema) :
              schema[i].function.name = schema[j].function.name => i = j
        /\ \A i \in 1..Len(schema) :
              LET cur == CurrentRegistration(reg_log, schema[i].function.name)
              IN  /\ schema[i].type = "function"
                  /\ schema[i].function.description = cur.description
                  /\ schema[i].function.parameters = cur.parameters
        /\ (reg_log = DefaultRegistrations => SchemaNames(schema) = ReferenceTools)

\* a reference tool was registered again with another description and a new
\* tool was added, and the schema was read after that
C14_Witness ==
    /\ reg_out.op = "get_tools_schema"
    /\ reg_out.value = get_tools_schema(tools)
    /\ Len(reg_log) = Len(DefaultRegistrations) + 2
    /\ reg_log[Len(reg_log)].name = "custom_tool"
    /\ reg_log[Len(reg_log) - 1].name = "drug_information"
    /\ reg_log[Len(reg_log) - 1].description # DefaultRegistrations[3].description
    /\ Len(reg_out.value) = Len(DefaultRegistrations) + 1

(***************************************************************************)
(* C15.  In every state of a MedicalQASystem, after construction and any   *)
(* sequence of switch_mode and toggle_rag_mode calls, RAG is enabled only  *)
(* in rag or agent mode: enable_rag implies that the mode is not llm.      *)
(***************************************************************************)
C15_RagOnlyInRagOrAgent ==
    qa.built => (qa.enable_rag => qa.mode # "llm")

(***************************************************************************)
(* C16.  The stored system prompt is always the variant the current mode   *)
(* and enable_rag select: the agent prompt in agent mode, the RAG prompt   *)
(* when RAG is enabled outside agent mode, the plain prompt otherwise; so  *)
(* every call that changes mode or enable_rag has rebuilt it.              *)
(***************************************************************************)
C16_PromptMatchesMode ==
    qa.built =>
        qa.system_prompt = (CASE qa.mode = "agent" -> QAAgentPrompt
                              [] qa.mode # "agent" /\ qa.enable_rag -> QARagPrompt
                              [] OTHER -> QALlmPrompt)

(***************************************************************************)
(* C17.  The object holds an agent exactly when its mode is agent, and     *)
(* every switch_mode into agent, from any mode and with enable_rag true or *)
(* false, completes and installs a new agent with an empty history;        *)
(* switch_mode to rag or llm leaves no agent.                              *)
(***************************************************************************)
C17_AgentIffAgentMode ==
    /\ [](qa.built => (qa.agent.id # 0 <=> qa.mode = "agent"))
    /\ [][ (qa_ops' = qa_ops + 1 /\ qa_out'.op = "switch_mode"
              /\ lower(qa_out'.args[1]) \in ValidModes) =>
             IF lower(qa_out'.args[1]) = "agent"
             THEN /\ qa_out'.raised = ""
                  /\ qa'.agent.id # 0
                  /\ qa'.agent.id # qa.agent.id
                  /\ qa'.agent.conversation_history = <<>>
             ELSE qa'.agent = NoAgent ]_vars

(***************************************************************************)
(* C18.  After switch_mode from agent to rag with enable_rag true, the     *)
(* next answer_question takes the retrieval and answer-generation path     *)
(* only: process_query is not run, no tool is executed, there is no agent, *)
(* and exactly one backend call is made, without the tools parameter.      *)
(* The caller is sequential about reconfiguration: no switch_mode or       *)
(* toggle_rag_mode call was in progress during the switch or during the    *)
(* question; other questions may be in progress on another thread.         *)
(***************************************************************************)
\* no switch_mode or toggle_rag_mode call of another thread was in
\* progress while the call was
Undisturbed(out) == ~out.concurrent

\* nor while the call that had returned before it was
UndisturbedSince(out) == Undisturbed(out) /\ (out.after # <<>> => ~out.after[5])

\* the call before the last one was switch_mode("rag", True) made in agent mode
AfterSwitchAgentToRag(out) ==
    /\ out.after # <<>>
    /\ out.after[1] = "switch_mode"
    /\ lower(out.after[2][1]) = "rag"
    /\ out.after[2][2] = TRUE
    /\ out.after[3] = "agent"

C18_NoLoopAfterSwitchToRag ==
    (/\ qa_out.op = "answer_question"
     /\ AfterSwitchAgentToRag(qa_out)
     /\ UndisturbedSince(qa_out)) =>
        /\ qa_out.raised = ""
        /\ ~qa_out.loop_entered
        /\ qa_out.executed = <<>>
        /\ qa.agent = NoAgent
        /\ Len(qa_out.backend_calls) = 1
        /\ ~qa_out.backend_calls[1].tools
        /\ Len(qa_out.backend_calls[1].messages) = 2
        /\ qa_out.envelope.mode = "RAG mode"

\* the switch succeeded, the index was queried and gave passages, and the
\* one backend call answered
C18_Witness ==
    /\ qa_out.op = "answer_question"
    /\ AfterSwitchAgentToRag(qa_out)
    /\ UndisturbedSince(qa_out)
    /\ qa_out.after[4] = ""
    /\ qa_out.index_queried
    /\ qa_out.envelope.retrieval_success
    /\ ~qa_out.backend_raised
    /\ Len(qa_out.backend_calls) = 1

(***************************************************************************)
(* C19.  Construction with a mode name outside {rag, llm, agent}, compared *)
(* case-insensitively, fails at once with ValueError before any retriever, *)
(* agent or client is created, and no object results.  Every name inside   *)
(* the set is accepted: construction never fails on the name, and with     *)
(* enable_rag false it succeeds in the named mode.                         *)
(***************************************************************************)
C19_InvalidModeRejected ==
    qa_out.op = "init" =>
        LET name == qa_out.args[1]
            enable_rag == qa_out.args[2]
        IN  IF lower(name) \notin ValidModes
            THEN /\ qa_out.raised = "ValueError"
                 /\ qa_out.created = {}
                 /\ qa = NoSystem
            ELSE /\ qa_out.raised # "ValueError"
                 /\ ~enable_rag => /\ qa_out.raised = ""
                                   /\ qa.built
                                   /\ qa.mode = lower(name)

\* an unsupported name was rejected, and after it a name in capitals was
\* accepted
C19_Witness ==
    /\ qa_out.op = "init"
    /\ qa_out.args[1] = "RAG"
    /\ qa.built /\ qa.mode = "rag"
    /\ qa_out.after[1] = "init"
    /\ qa_out.after[2][1] = "chat"
    /\ qa_out.after[4] = "ValueError"

(***************************************************************************)
(* C20.  answer_question always returns a complete envelope, whatever the  *)
(* mode and whatever the index, the backend and the tools do: the fields   *)
(* question, answer, search_results (the passages), sources, mode and      *)
(* rag_enabled are present, and no exception escapes.  This is so for      *)
(* every call during which no switch_mode or toggle_rag_mode call was in   *)
(* progress; questions of another thread may be.                           *)
(***************************************************************************)
EnvelopeFields ==
    {"question", "answer", "search_results", "retrieval_success", "sources",
     "context", "mode", "rag_enabled"}

C20_AlwaysAnEnvelope ==
    (qa_out.op = "answer_question" /\ Undisturbed(qa_out)) =>
        /\ qa_out.raised = ""
        /\ EnvelopeFields \subseteq DOMAIN qa_out.envelope
        /\ qa_out.envelope.question = qa_out.args[1]
        /\ qa_out.envelope.rag_enabled = qa.enable_rag
        /\ Len(qa_out.envelope.sources) = Len(qa_out.envelope.search_results)

\* in agent mode an episode ran, a tool was executed and the backend failed
\* at some invocation; the envelope was still returned, while a question of
\* another thread waited in agent.chat
C20_Witness ==
    /\ qa_out.op = "answer_question"
    /\ Undisturbed(qa_out)
    /\ \E other \in qa_run : other.op = "answer_question" /\ other.pc = "chat"
    /\ qa.mode = "agent"
    /\ qa_out.loop_entered
    /\ qa_out.executed # <<>>
    /\ Len(qa_out.backend_calls) > Len(qa_out.executed)
    /\ EnvelopeFields \subseteq DOMAIN qa_out.envelope

(***************************************************************************)
(* C21.  In agent mode, when process_query returned a final answer, the    *)
(* envelope of answer_question carries that answer as its answer text,     *)
(* together with the episode's tool calls and iteration count (agent_info) *)
(* and without an error field; an error field is present only when the     *)
(* episode itself failed.                                                  *)
(***************************************************************************)
C21_FinalAnswerInEnvelope ==
    (qa_out.op = "answer_question" /\ qa_out.loop_entered) =>
        /\ qa_out.episode_exit = "final" =>
              /\ qa_out.envelope.answer = qa_out.agent_result
              /\ "agent_info" \in DOMAIN qa_out.envelope
              /\ "error" \notin DOMAIN qa_out.envelope
        /\ "error" \in DOMAIN qa_out.envelope => qa_out.episode_exit = "error"


(***************************************************************************)
(* C22.  For every k >= 1 the context retrieve_context builds from a       *)
(* passage list of length n holds exactly min(k, n) rendered segments, in  *)
(* the order of the passages; the content part of a segment is at most     *)
(* max_context_length // k characters plus the marker "...", and content   *)
(* not longer than that bound is rendered unchanged and without marker.    *)
(* The passage list is the one the search handed to retrieve_context.      *)
(***************************************************************************)
CountOf(c, text) == Cardinality({i \in 1..Len(text) : text[i] = c})

\* the content part the claim allows for a content and a bound
ContentPart(content, bound) ==
    IF Len(content) <= bound THEN content
    ELSE [i \in 1..(bound + 3) |-> IF i <= bound THEN content[i] ELSE "."]

\* where the content part of the i-th segment begins in a context made of
\* the given parts
RECURSIVE PartStart(_, _)
PartStart(parts, i) ==
    IF i = 1 THEN Len(ContextHeader) + 1
    ELSE PartStart(parts, i - 1) + Len(parts[i - 1]) + 2

C22_SegmentsOfContext ==
    lookup.rc.done =>
        LET results == lookup.rc.search_results
            n == Len(results)
            bound == lookup.max_context_length \div lookup.k
            context == lookup.rc.context
            parts == [i \in 1..n |->
                        SegmentLabel(results[i]) \o ContentPart(results[i].content, bound)]
        IN  /\ CountOf("[", context) = Min(lookup.k, n)
            /\ n > 0 =>
                 /\ Len(context) = PartStart(parts, n) + Len(parts[n]) - 1
                 /\ \A i \in 1..n :
                      SubSeq(context, PartStart(parts, i),
                             PartStart(parts, i) + Len(parts[i]) - 1) = parts[i]

\* a context of two segments, the content of one cut and marked, the content
\* of the other rendered whole
C22_Witness ==
    /\ lookup.rc.done
    /\ Len(lookup.rc.search_results) = 2
    /\ lookup.max_context_length \div lookup.k > 0
    /\ \E i, j \in 1..2 :
         /\ Len(lookup.rc.search_results[i].content)
              > lookup.max_context_length \div lookup.k
         /\ Len(lookup.rc.search_results[j].content)
              <= lookup.max_context_length \div lookup.k

(***************************************************************************)
(* C23.  The character count of the context retrieve_context returns never *)
(* exceeds max_context_length, for every k >= 1, every max_context_length  *)
(* and every passage list.                                                 *)
(***************************************************************************)
C23_ContextWithinBudget ==
    lookup.rc.done => Len(lookup.rc.context) <= lookup.max_context_length

(***************************************************************************)
(* C25.  similarity_search never raises: with the vector store not loaded  *)
(* or the index call failing it returns the empty list, which              *)
(* retrieve_context treats exactly as it treats an index without a match,  *)
(* and on every outcome the list has at most k entries.                    *)
(***************************************************************************)
\* the search was made and the store was not loaded or the index call failed
SearchFailed ==
    /\ lookup.retriever # "None"
    /\ lookup.retriever = "unloaded" \/ lookup.index.raises

\* what retrieve_context returns for a loaded store without any document
NoMatchContext ==
    retrieve_context([LookupSystem EXCEPT !.retriever = "loaded"],
                     Index(FALSE, <<>>), lookup.k)

C25_SearchNeverRaises ==
    /\ lookup.search.done =>
         /\ ~lookup.search.raised
         /\ Len(lookup.search.results) <= lookup.k
         /\ SearchFailed => lookup.search.results = <<>>
    /\ (lookup.rc.done /\ lookup.rc.queried /\ SearchFailed) =>
         /\ lookup.rc.context = NoMatchContext.context
         /\ lookup.rc.search_results = NoMatchContext.search_results

\* the index call failed on a loaded store, and both the search and
\* retrieve_context have returned
C25_Witness ==
    /\ lookup.search.done
    /\ lookup.rc.done
    /\ lookup.enable_rag
    /\ lookup.retriever = "loaded"
    /\ lookup.index.raises

(***************************************************************************)
(* C26.  For an index holding n matching passages, similarity_search with  *)
(* the default threshold returns exactly min(k, n) passages, in the        *)
(* index's order, none dropped, each with a non-empty source, whatever     *)
(* scores the index reports.                                               *)
(***************************************************************************)
C26_ExactlyMinKN ==
    (lookup.search.done /\ lookup.retriever = "loaded" /\ ~lookup.index.raises) =>
        LET docs == lookup.index.docs
            results == lookup.search.results
        IN  /\ Len(results) = Min(lookup.k, Len(docs))
            /\ \A i \in 1..Len(results) :
                 /\ i <= Len(docs) => results[i].content = docs[i].page_content
                 /\ results[i].source # <<>>


(***************************************************************************)
(* C24.  With RAG enabled and a search that returns no passage (no match,  *)
(* store not loaded, or index failure), retrieve_context returns the       *)
(* "no relevant knowledge" sentinel with an empty passage list, and        *)
(* answer_question returns a normal envelope: retrieval_success false,     *)
(* sources empty, no error field, nothing raised.  When no switch_mode or  *)
(* toggle_rag_mode call was in progress during the question, the envelope  *)
(* also says RAG is enabled and the user message carries the sentinel.     *)
(***************************************************************************)
C24_SentinelOnEmptySearch ==
    (/\ qa_out.op = "answer_question"
     /\ qa_out.index_queried
     /\ qa_out.envelope.search_results = <<>>) =>
        /\ qa_out.retrieved = NoKnowledgeText
        /\ qa_out.raised = ""
        /\ qa_out.envelope.retrieval_success = FALSE
        /\ qa_out.envelope.sources = <<>>
        /\ "error" \notin DOMAIN qa_out.envelope
        /\ Len(qa_out.backend_calls) = 1
        /\ Undisturbed(qa_out) =>
              /\ qa_out.envelope.rag_enabled
              /\ qa_out.backend_calls[1].messages[2].content.context = NoKnowledgeText

\* a question answered over a store that is not loaded, the backend
\* answering, no switch_mode or toggle_rag_mode call in progress meanwhile
C24_Witness ==
    /\ qa_out.op = "answer_question"
    /\ Undisturbed(qa_out)
    /\ qa_out.index_queried
    /\ qa.retriever = "unloaded"
    /\ qa_out.envelope.search_results = <<>>
    /\ ~qa_out.backend_raised

(***************************************************************************)
(* C27.  generate_answer invokes the backend exactly once per call, with   *)
(* one system message followed by one user message and no tool schema;     *)
(* when the call fails nothing is raised and the answer is the apology     *)
(* followed by the retrieved context generate_answer was given.  This is   *)
(* so of generate_answer applied to the object in every state it reaches,  *)
(* the states between two parts of a call included, and of every           *)
(* answer_question call that reached generate_answer, whatever ran on      *)
(* another thread meanwhile.                                               *)
(***************************************************************************)
\* answer_question took the path of rag and llm mode and generate_answer made
\* its backend call
ViaGenerateAnswer(out) ==
    out.op = "answer_question" /\ out.from_mode # "agent" /\ out.backend_calls # <<>>

\* the context texts generate_answer is given: none, the sentinel, and the
\* rendering of the passages of a search
ContextsGiven ==
    {<<>>}
    \cup { retrieve_context([NoSystem EXCEPT !.enable_rag = TRUE, !.retriever = "loaded"],
                            index, DefaultK).context : index \in IndexOutcomes }

\* the roles of the messages of a backend call, in order
Roles(call) == [i \in 1..Len(call.messages) |-> call.messages[i].role]

C27_InAnswerQuestion ==
    ViaGenerateAnswer(qa_out) =>
        /\ qa_out.raised = ""
        /\ Len(qa_out.backend_calls) = 1
        /\ ~qa_out.backend_calls[1].tools
        /\ [i \in 1..Len(qa_out.backend_calls[1].messages) |->
               qa_out.backend_calls[1].messages[i].role] = <<"system", "user">>
        /\ qa_out.backend_raised =>
             /\ DOMAIN qa_out.envelope.answer = {"template", "context"}
             /\ qa_out.envelope.answer.template = DegradedAnswer(<<>>).template
             /\ qa_out.envelope.answer.context = qa_out.retrieved
        /\ ~qa_out.backend_raised => qa_out.envelope.answer \in Answers

C27_OneCallOrDegraded ==
    /\ C27_InAnswerQuestion
    /\ qa.built =>
          \A question \in QAQuestions, context \in ContextsGiven,
             backend \in GenerateOutcomes :
             LET ga == generate_answer(qa, question, context, backend)
             IN  /\ Len(ga.calls) = 1
                 /\ ~ga.calls[1].tools
                 /\ Roles(ga.calls[1]) = <<"system", "user">>
                 /\ ga.calls[1].messages[1].content = qa.system_prompt
                 /\ IF backend.raises
                    THEN /\ DOMAIN ga.answer = {"template", "context"}
                         /\ ga.answer.template = DegradedAnswer(<<>>).template
                         /\ ga.answer.context = context
                    ELSE ga.answer = backend.content

\* the backend call failed after passages had been retrieved
C27_Witness ==
    /\ ViaGenerateAnswer(qa_out)
    /\ qa_out.backend_raised
    /\ qa_out.envelope.retrieval_success
    /\ Len(qa_out.retrieved) > Len(ContextHeader)


(***************************************************************************)
(* C28.  emergency_assessment classifies into exactly one of three tiers:  *)
(* the highest if a symptom contains an emergency keyword or the severity  *)
(* is severe; otherwise the middle one if a symptom contains an urgent     *)
(* keyword or the severity is moderate; otherwise the lowest.  A symptom   *)
(* list with an emergency keyword and severity mild gets the highest tier  *)
(* and the recommendation of immediate care.  A call that leaves the       *)
(* severity out is classified with the default, moderate.                  *)
(***************************************************************************)
\* the piece that follows a label in a text
After(text, label, offset) ==
    text[(CHOOSE i \in 1..Len(text) : text[i] = label) + offset]
LevelOf(text) == After(text, "result: ", 3)
RecommendationOf(text) == After(text, "advice: ", 1)

Mentions(symptoms, keywords) ==
    \E i \in 1..Len(symptoms), j \in 1..Len(keywords) :
        Contains(symptoms[i], keywords[j])

SeverityGiven(kwargs) ==
    IF "severity" \in DOMAIN kwargs THEN kwargs.severity ELSE "moderate"

C28_ThreeTiers ==
    assessment.done =>
        LET symptoms == assessment.kwargs.symptoms
            severity == SeverityGiven(assessment.kwargs)
            level == LevelOf(assessment.text)
        IN  /\ level \in {Emergency.level, Urgent.level, Ordinary.level}
            /\ level = Emergency.level <=>
                 (Mentions(symptoms, emergency_symptoms) \/ severity = "severe")
            /\ level = Urgent.level <=>
                 /\ ~(Mentions(symptoms, emergency_symptoms) \/ severity = "severe")
                 /\ Mentions(symptoms, urgent_symptoms) \/ severity = "moderate"
            /\ level = Emergency.level =>
                 RecommendationOf(assessment.text) = Emergency.recommendation

\* 剧烈头痛 with severity mild was assessed as the highest tier
C28_Witness ==
    /\ assessment.done
    /\ assessment.kwargs = [symptoms |-> <<SevereHeadache>>, severity |-> "mild"]
    /\ LevelOf(assessment.text) = Emergency.level
    /\ RecommendationOf(assessment.text) = Emergency.recommendation

(***************************************************************************)
(* C29.  In emergency_assessment the severity can only raise urgency: for  *)
(* a fixed symptom list the tier for severe is at least the tier for       *)
(* moderate, which is at least the tier for mild, and for every severity,  *)
(* also when it is left out, the tier is at least the tier the keywords    *)
(* of the symptoms alone determine.                                        *)
(***************************************************************************)
TierOf(text) ==
    CASE LevelOf(text) = Emergency.level -> 3
      [] LevelOf(text) = Urgent.level -> 2
      [] LevelOf(text) = Ordinary.level -> 1

KeywordTier(symptoms) ==
    IF Mentions(symptoms, emergency_symptoms) THEN 3
    ELSE IF Mentions(symptoms, urgent_symptoms) THEN 2
    ELSE 1

\* the severities the claim orders
SeverityRank(severity) ==
    CASE severity = "mild" -> 1 [] severity = "moderate" -> 2 [] severity = "severe" -> 3

C29_SeverityOnlyRaises ==
    assessment.done =>
        LET symptoms == assessment.kwargs.symptoms
            tier == TierOf(assessment.text)
        IN  /\ tier >= KeywordTier(symptoms)
            /\ ("severity" \in DOMAIN assessment.kwargs
                  /\ assessment.kwargs.severity \in {"mild", "moderate", "severe"}) =>
                 \A weaker \in {"mild", "moderate", "severe"} :
                     SeverityRank(weaker) <= SeverityRank(assessment.kwargs.severity) =>
                         TierOf(emergency_assessment(symptoms, weaker)) <= tier

\* a symptom list without any keyword was raised to the highest tier by
\* severity severe
C29_Witness ==
    /\ assessment.done
    /\ assessment.kwargs = [symptoms |-> <<NightSweat>>, severity |-> "severe"]
    /\ KeywordTier(assessment.kwargs.symptoms) = 1
    /\ TierOf(assessment.text) = 3

(***************************************************************************)
(* C30.  Executing any of the six reference tools through execute_tool is  *)
(* side-effect-free and idempotent: the execution leaves the registry and  *)
(* everything else the tools read as it was (the vector store at the       *)
(* default path; what the hash seed of the process has decided), and two   *)
(* executions with identical arguments against the same index snapshot     *)
(* return identical text; a tool that opens no index does so whatever is   *)
(* at the default path.                                                    *)
(***************************************************************************)
SameCall(a, b) == a.name = b.name /\ a.kwargs = b.kwargs

\* both executions opened the same index, or none
SameSnapshot(a, b) == a.store = b.store

\* the step executes a tool
ToolExecuted == Len(tool_run'.calls) > Len(tool_run.calls)

C30_ToolsIdempotent ==
    /\ [](/\ tools = NewRegistry
          /\ \A i, j \in 1..Len(tool_run.calls) :
               /\ SameCall(tool_run.calls[i], tool_run.calls[j])
               /\ SameSnapshot(tool_run.calls[i], tool_run.calls[j])
               => tool_run.calls[i].text = tool_run.calls[j].text)
    /\ [][ToolExecuted =>
            /\ tools' = tools
            /\ tool_run'.env.store = tool_run.env.store
            /\ \A inserted \in DOMAIN tool_run.env.seed :
                 /\ inserted \in DOMAIN tool_run'.env.seed
                 /\ tool_run'.env.seed[inserted] = tool_run.env.seed[inserted]]_vars

\* drug_information for a known drug was executed twice
C30_Witness ==
    /\ Len(tool_run.calls) = 2
    /\ tool_run.calls[1].name = "drug_information"
    /\ tool_run.calls[1].kwargs = [drug_name |-> Aspirin]
    /\ SameCall(tool_run.calls[1], tool_run.calls[2])
    /\ tool_run.calls[1].text = tool_run.calls[2].text

(***************************************************************************)
(* C31.  The coverage score lies in [0, 1]; it is 0 when no passage was    *)
(* retrieved and 0 when the question has no token between whitespace;      *)
(* otherwise it is the number of distinct lowercased question tokens that  *)
(* are also tokens of the lowercased answer, divided by the number of      *)
(* distinct lowercased question tokens.                                    *)
(***************************************************************************)
\* the tokens of text: its maximal stretches without whitespace
TokensOf(text) ==
    {SubSeq(text, i, j) : <<i, j>> \in
        {p \in (DOMAIN text) \X (DOMAIN text) :
            /\ p[1] <= p[2]
            /\ \A k \in p[1]..p[2] : text[k] \notin Whitespace
            /\ (p[1] = 1 \/ text[p[1] - 1] \in Whitespace)
            /\ (p[2] = Len(text) \/ text[p[2] + 1] \in Whitespace)}}

C31_CoverageScore ==
    evaluation.done =>
        LET score == evaluation.score
            asked == TokensOf(str_lower(evaluation.question))
            told == TokensOf(str_lower(evaluation.answer))
        IN  /\ 0 <= score.num /\ score.num <= score.den /\ score.den > 0
            /\ (evaluation.search_results = <<>> => score.num = 0)
            /\ (asked = {} => score.num = 0)
            /\ (evaluation.search_results # <<>> /\ asked # {}) =>
                   score.num * Cardinality(asked)
                       = score.den * Cardinality(asked \cap told)

\* a question of two tokens, one of them answered in the other case
C31_Witness ==
    /\ evaluation.done
    /\ evaluation.search_results # <<>>
    /\ evaluation.question = <<"A", " ", "b">>
    /\ evaluation.answer = <<"a">>
    /\ evaluation.score = [num |-> 1, den |-> 2]

(***************************************************************************)
(* C32.  Two process_query calls interleaved at backend invocations and    *)
(* tool executions, sharing the agent and the tool registry, do not        *)
(* interfere: the conversation of each call holds its own user message,    *)
(* its own assistant replies and the results of its own tool calls only,   *)
(* and each call returns what it returns when it runs alone.               *)
(***************************************************************************)
\* call i run from its beginning to its return with no other call about
Alone(i) ==
    RunEpisode(Started(episodes[i], i, max_iterations), episodes[i].script,
               max_iterations)

\* the ids of the tool calls the replies in msgs request
RequestedIn(msgs) ==
    UNION {{msgs[k].tool_calls[j].id : j \in DOMAIN msgs[k].tool_calls}
           : k \in {n \in DOMAIN msgs : msgs[n].role = "assistant"}}

C32_CallsDoNotInterfere ==
    \A i \in DOMAIN episodes :
        LET e == episodes[i].e
            other == episodes[Other(i)].e
            alone == Alone(i)
        IN  e.pc # "idle" =>
              /\ IsPrefix(e.messages, alone.messages)
              /\ \A k \in DOMAIN e.messages :
                   /\ e.messages[k].role = "user" =>
                        e.messages[k].content = episodes[i].user_query
                   /\ e.messages[k].role = "tool" =>
                        /\ e.messages[k].tool_call_id \in RequestedIn(e.messages)
                        /\ e.messages[k].tool_call_id \notin RequestedIn(other.messages)
              /\ e.pc = "returned" =>
                   /\ e.result = alone.result
                   /\ e.exit = alone.exit
                   /\ e.messages = alone.messages

\* both calls took steps while the other was running; the first has
\* returned its final answer after a tool call, the second is between the
\* two tool calls of its reply
C32_Witness ==
    /\ episodes[1].overlapped /\ episodes[2].overlapped
    /\ episodes[1].e.exit = "final"
    /\ Len(episodes[1].e.executed) = 1
    /\ episodes[2].e.pc = "act"
    /\ episodes[2].e.idx = 2
    /\ conversation_history = <<HistoryEntry(episodes[1].e)>>

(***************************************************************************)
(* C33.  Whenever RAG is disabled (by construction, by switch_mode or by   *)
(* toggle_rag_mode, also when a retriever created earlier is still held),  *)
(* answer_question in rag or llm mode does not consult the similarity      *)
(* index and returns an envelope with no context passages, no sources and  *)
(* retrieval_success false.  RAG is disabled when the call is made;        *)
(* whatever runs on another thread before the call returns, the index is   *)
(* not consulted, and when no switch_mode or toggle_rag_mode call was in   *)
(* progress meanwhile the envelope says RAG is disabled.                   *)
(***************************************************************************)
\* answer_question was called in rag or llm mode with RAG disabled
AnsweredWithRagDisabled(out) ==
    out.op = "answer_question" /\ out.from_mode # "agent" /\ ~out.from_rag

C33_DisabledRagNeverSearches ==
    AnsweredWithRagDisabled(qa_out) =>
        /\ qa_out.raised = ""
        /\ ~qa_out.index_queried
        /\ qa_out.retrieved = <<>>
        /\ qa_out.envelope.search_results = <<>>
        /\ qa_out.envelope.sources = <<>>
        /\ qa_out.envelope.retrieval_success = FALSE
        /\ qa_out.envelope.context \in {<<>>, NoneText}
        /\ Undisturbed(qa_out) => ~qa_out.envelope.rag_enabled

\* a question answered in rag mode after toggle_rag_mode switched RAG off,
\* the retriever with its loaded store still held
C33_Witness ==
    /\ AnsweredWithRagDisabled(qa_out)
    /\ Undisturbed(qa_out)
    /\ qa.mode = "rag"
    /\ ~qa.enable_rag
    /\ qa.retriever = "loaded"
    /\ qa_out.after[1] = "toggle_rag_mode"
    /\ qa_out.envelope.search_results = <<>>
    /\ ~qa_out.index_queried

(***************************************************************************)
(* C34.  The user message generate_answer builds embeds retrieved          *)
(* evidence exactly when RAG is enabled and the context text is not        *)
(* empty, and has the model-only wording otherwise; when the retrieval     *)
(* found no passage the message does not present the "no relevant          *)
(* knowledge found" text as content of the knowledge base.                 *)
(***************************************************************************)
\* the user message of the one backend call of the answer
UserMessageOf(out) == out.backend_calls[1].messages[2].content

EmbedsEvidence(message) == "context" \in DOMAIN message

C34_EvidenceNotSentinel ==
    ViaGenerateAnswer(qa_out) =>
        LET message == UserMessageOf(qa_out)
        IN  /\ EmbedsEvidence(message) <=> (qa.enable_rag /\ qa_out.retrieved # <<>>)
            /\ EmbedsEvidence(message) =>
                 /\ message.template = UserMessageWithContext("", <<>>).template
                 /\ message.context = qa_out.retrieved
            /\ ~EmbedsEvidence(message) =>
                 message.template = UserMessagePlain("").template
            /\ qa_out.envelope.search_results = <<>> =>
                 (EmbedsEvidence(message) => message.context # NoKnowledgeText)

(***************************************************************************)
(* C35.  A rejected controller operation is a no-op: switch_mode with a    *)
(* name outside rag, llm, agent, and toggle_rag_mode called in agent       *)
(* mode, leave mode, enable_rag, agent, retriever, client and system       *)
(* prompt as they were and raise nothing.                                  *)
(***************************************************************************)
\* the step is a call of op on the controller
CallOf(op) == qa_ops' = qa_ops + 1 /\ qa_out'.op = op

RejectedSwitch(args) == lower(args[1]) \notin ValidModes

C35_RejectedIsNoOp ==
    [][ (\/ CallOf("switch_mode") /\ RejectedSwitch(qa_out'.args)
         \/ CallOf("toggle_rag_mode") /\ qa.mode = "agent")
        => (qa' = qa /\ qa_out'.raised = "" /\ qa_out'.created = {}) ]_vars

\* toggle_rag_mode was called in agent mode, after a switch_mode with a name
\* that is no mode
C35_Witness ==
    /\ qa_out.op = "toggle_rag_mode"
    /\ qa.mode = "agent"
    /\ qa_out.after[1] = "switch_mode"
    /\ RejectedSwitch(qa_out.after[2])
    /\ qa_out.raised = ""

(***************************************************************************)
(* C36.  switch_mode is all-or-nothing: after a call, whether or not the   *)
(* components of the new mode could be constructed, either mode,           *)
(* enable_rag, agent, retriever, client and system prompt describe the     *)
(* requested mode together, or all of them are as before the call; the     *)
(* mode is never changed with the retriever, the client or the system      *)
(* prompt left from the old mode.                                          *)
(***************************************************************************)
\* the fields of sys describe mode m with RAG on or off
Describes(sys, m, en) ==
    /\ sys.mode = m
    /\ sys.enable_rag = en
    /\ sys.agent.id # 0 <=> m = "agent"
    /\ m = "agent" => sys.client = sys.agent.client
    /\ m # "agent" => (sys.retriever # "None" <=> en)
    /\ sys.system_prompt = (CASE m = "agent" -> QAAgentPrompt
                              [] m # "agent" /\ en -> QARagPrompt
                              [] OTHER -> QALlmPrompt)

C36_SwitchAllOrNothing ==
    [][ CallOf("switch_mode") =>
          LET m == lower(qa_out'.args[1])
              en == qa_out'.args[2] /\ m \in {"rag", "agent"}
          IN  qa' = qa \/ (m \in ValidModes /\ Describes(qa', m, en)) ]_vars

(***************************************************************************)
(* C37.  An iteration of process_query whose backend call fails appends    *)
(* nothing to the conversation, so the next iteration invokes the backend  *)
(* with exactly the same message sequence; the failure consumes one unit   *)
(* of the iteration budget and changes nothing else.                       *)
(***************************************************************************)
\* the step is a backend call of the running episode that raised
BackendCallFails ==
    /\ ep.pc = "think"
    /\ Len(ep'.sent) = Len(ep.sent) + 1
    /\ Len(ep'.caught) = Len(ep.caught) + 1

\* the backend call of iteration it (counted from 0) raised
FailedAt(e, it) ==
    \E c \in DOMAIN e.caught :
        e.caught[c].iteration = it /\ e.caught[c].message \in BackendErrors

C37_FailedIterationAppendsNothing ==
    /\ [](\A k \in 1..(Len(ep.sent) - 1) :
            FailedAt(ep, k - 1) => ep.sent[k + 1] = ep.sent[k])
    /\ [][ BackendCallFails =>
             /\ ep'.messages = ep.messages
             /\ ep'.sent[Len(ep'.sent)] = ep.messages
             /\ ep'.user_query = ep.user_query
             /\ ep'.executed = ep.executed
             /\ ep'.issued = ep.issued
             /\ conversation_history' = conversation_history
             /\ max_iterations' = max_iterations
             /\ tools' = tools
             /\ IF ep.iteration = max_iterations - 1
                THEN ep'.pc = "returned" /\ ep'.exit = "error"
                     /\ ep'.iteration = ep.iteration
                ELSE ep'.pc = "think" /\ ep'.iteration = ep.iteration + 1 ]_vars

\* the first backend call failed and the second iteration has invoked the
\* backend with the same two messages
C37_Witness ==
    /\ Len(ep.sent) = 2
    /\ FailedAt(ep, 0)
    /\ ep.sent[2] = ep.sent[1]
    /\ Len(ep.sent[1]) = 2
    /\ ep.iteration = 1

(***************************************************************************)
(* C38.  The medical_knowledge_search tool, executed in an episode of an   *)
(* agent, queries the vector store the agent was configured with through   *)
(* vector_store_path: what the tool returns and what the agent's own       *)
(* retriever returns come from one index.                                  *)
(***************************************************************************)
C38_ToolSearchesAgentStore ==
    \A n \in DOMAIN deployment.searches :
        LET search == deployment.searches[n]
            top_k == Arg(search.kwargs, "top_k", DefaultTopK)
            configured == search.disk[deployment.agent.vector_store_path]
        IN  search.by = "tool" =>
              search.text = medical_knowledge_search(configured, "q1", top_k)

====
